---- MODULE Spec2Model ----
(***************************************************************************)
(* A model of the QuantumForge assembly backend: the plan-producing paths  *)
(* (dependency resolution), the CodeCell store, the import normalizer, the *)
(* symbol conflict resolver and the program assembler.                     *)
(*                                                                         *)
(* Text is modelled character by character: a Python str is a sequence of  *)
(* one-character strings, so that strip/split/replace/startswith/sorted do *)
(* what the Python built-ins do.                                           *)
(***************************************************************************)
EXTENDS Integers, Sequences, FiniteSets, TLC

VARIABLES
    components,     \* run: the ComponentCard list handed to the pipeline step
    component_names,\* IntelligentPipelineComposer: the component names to order
    plan,           \* the outcome of the plan-producing operation: a plan or an error
    attempt,        \* LLMEngine.plan_pipeline: failed attempts so far
    imports,        \* ImportManager: the raw import list handed to normalize
    normalized,     \* ImportManager: [done, value] result of normalize(imports)
    renormalized,   \* ImportManager: [done, value] result of normalize(normalized.value)
    memory,         \* Memory: the stored CodeCells, in stored order
    added,          \* Memory: the cells handed to add so far, in call order
    merging,        \* _merge_code_sections_fixed: its loop, line by line
    assembled,      \* assemble: the inputs and the outcome of a run
    reassembled,    \* assemble: the outcome of a second run on the same inputs
    failure,        \* run: the error raised to run's caller, if any
    declared,       \* _build_args_spec: the inputs and the outcome of a call
    engine,         \* LLMEngine: a call of an agent API and its retry loop
    cache,          \* CacheManager: its settings, its three caches and its clock
    orchestration,  \* IntelligentToolOrchestrator: a run of generate_quantum_code
    optimization    \* CodeOptimizer: the cells handed to optimize_code_cells and returned

resolveVars == <<components, component_names, plan, attempt>>
importVars == <<imports, normalized, renormalized>>
assembleVars == <<memory, added, merging, assembled, reassembled>>
serviceVars == <<declared, engine, cache, orchestration, optimization>>

vars == <<components, component_names, plan, attempt, imports, normalized, renormalized,
          memory, added, merging, assembled, reassembled, failure, declared,
          engine, cache, orchestration, optimization>>

(***************************************************************************)
(* Python str built-ins                                                    *)
(***************************************************************************)

\* a Python str literal as a sequence of characters
S(str) == [i \in 1..Len(str) |-> SubSeq(str, i, i)]

\* the characters the model's texts use, in code-point order
Alphabet == S(" (),.0123456789:=ABCDEFGHIJKLMNOPQRSTUVWXYZ_abcdefghijklmnopqrstuvwxyz")

CodePoints == [c \in {Alphabet[i] : i \in 1..Len(Alphabet)} |->
                  CHOOSE i \in 1..Len(Alphabet) : Alphabet[i] = c]

Ord(c) == CodePoints[c]

Min(set) == CHOOSE x \in set : \A y \in set : x <= y
Max(set) == CHOOSE x \in set : \A y \in set : x >= y

IsSpace(c) == c \in {" ", "\n", "\t"}

\* str.strip()
Strip(s) ==
    LET keep == {i \in 1..Len(s) : ~IsSpace(s[i])}
    IN IF keep = {} THEN <<>> ELSE SubSeq(s, Min(keep), Max(keep))

\* ascending sequence of a finite set of integers
RECURSIVE Ascending(_)
Ascending(set) ==
    IF set = {} THEN <<>>
    ELSE <<Min(set)>> \o Ascending(set \ {Min(set)})

\* str.split() with no argument: the maximal runs of non-whitespace
Split(s) ==
    LET starts == {i \in 1..Len(s) : ~IsSpace(s[i]) /\ (i = 1 \/ IsSpace(s[i-1]))}
        stop(i) == Min({j \in i..Len(s) : j = Len(s) \/ IsSpace(s[j+1])})
        st == Ascending(starts)
    IN [k \in 1..Len(st) |-> SubSeq(s, st[k], stop(st[k]))]

\* sep.join(parts)
RECURSIVE Join(_, _)
Join(sep, parts) ==
    IF parts = <<>> THEN <<>>
    ELSE IF Len(parts) = 1 THEN parts[1]
    ELSE parts[1] \o sep \o Join(sep, Tail(parts))

\* str.startswith(prefix)
StartsWith(s, prefix) ==
    /\ Len(prefix) <= Len(s)
    /\ SubSeq(s, 1, Len(prefix)) = prefix

\* s[n:]
Drop(s, n) == SubSeq(s, n + 1, Len(s))

\* sub in s
Contains(s, sub) == \E i \in 1..(Len(s) - Len(sub) + 1) : SubSeq(s, i, i + Len(sub) - 1) = sub

\* str.find(sub) counted from 1; 0 when absent
Find(s, sub) ==
    IF Contains(s, sub)
    THEN CHOOSE i \in 1..(Len(s) - Len(sub) + 1) :
             /\ SubSeq(s, i, i + Len(sub) - 1) = sub
             /\ \A j \in 1..(i - 1) : SubSeq(s, j, j + Len(sub) - 1) # sub
    ELSE 0

\* s.split(sep)[0]
SplitFirst(s, sep) ==
    IF Find(s, sep) = 0 THEN s ELSE SubSeq(s, 1, Find(s, sep) - 1)

\* a < b for Python str (code-point lexicographic order)
StrLess(a, b) ==
    \E k \in 1..(Len(a) + 1) :
        /\ k <= Len(b)
        /\ \A i \in 1..(k - 1) : a[i] = b[i]
        /\ \/ k = Len(a) + 1
           \/ (k <= Len(a) /\ Ord(a[k]) < Ord(b[k]))

\* sorted(list) for a list of str (stable insertion sort)
RECURSIVE Sorted(_)
Sorted(list) ==
    IF list = <<>> THEN <<>>
    ELSE LET rest == Sorted(SubSeq(list, 1, Len(list) - 1))
             x == list[Len(list)]
             before == {i \in 1..Len(rest) : ~StrLess(x, rest[i])}
             n == IF before = {} THEN 0 ELSE Max(before)
         IN SubSeq(rest, 1, n) \o <<x>> \o SubSeq(rest, n + 1, Len(rest))

Range(f) == {f[i] : i \in DOMAIN f}

\* str.replace(old, new): every non-overlapping occurrence, left to right
RECURSIVE Replace(_, _, _)
Replace(s, old, new) ==
    LET i == Find(s, old)
    IN IF i = 0 THEN s
       ELSE SubSeq(s, 1, i - 1) \o new \o Replace(Drop(s, i + Len(old) - 1), old, new)

\* str.split(sep)
RECURSIVE SplitOn(_, _)
SplitOn(s, sep) ==
    LET i == Find(s, sep)
    IN IF i = 0 THEN <<s>>
       ELSE <<SubSeq(s, 1, i - 1)>> \o SplitOn(Drop(s, i + Len(sep) - 1), sep)

\* str.split(sep, 1) of a str that holds sep
SplitOnce(s, sep) ==
    <<SubSeq(s, 1, Find(s, sep) - 1), Drop(s, Find(s, sep) + Len(sep) - 1)>>

Digits == Range(S("0123456789"))
Letters == Range(S("ABCDEFGHIJKLMNOPQRSTUVWXYZabcdefghijklmnopqrstuvwxyz"))

\* str.isalnum()
IsAlnum(s) == s # <<>> /\ \A i \in 1..Len(s) : s[i] \in Letters \cup Digits

\* str(n) for a natural number
RECURSIVE Str(_)
Str(n) ==
    IF n < 10 THEN <<S("0123456789")[n + 1]>>
    ELSE Str(n \div 10) \o <<S("0123456789")[(n % 10) + 1]>>

\* a dict as the list of its items, in insertion order
Keys(dict) == [i \in 1..Len(dict) |-> dict[i].key]

HasKey(dict, key) == \E i \in 1..Len(dict) : dict[i].key = key

\* dict.get(key, default)
Get(dict, key, default) ==
    IF HasKey(dict, key)
    THEN dict[CHOOSE i \in 1..Len(dict) : dict[i].key = key].value
    ELSE default

\* dict[key] = value: an existing key keeps its place
SetItem(dict, key, value) ==
    IF HasKey(dict, key)
    THEN [i \in 1..Len(dict) |-> IF dict[i].key = key THEN [key |-> key, value |-> value]
                                  ELSE dict[i]]
    ELSE Append(dict, [key |-> key, value |-> value])

\* dict.update(other)
RECURSIVE Update(_, _)
Update(dict, other) ==
    IF other = <<>> THEN dict
    ELSE Update(SetItem(dict, other[1].key, other[1].value), Tail(other))

(***************************************************************************)
(* core/import_manager.py: ImportManager                                   *)
(***************************************************************************)

stdlib_modules ==
    {S("os"), S("sys"), S("time"), S("datetime"), S("json"), S("math"), S("random"),
     S("typing"), S("dataclasses"), S("abc"), S("itertools"), S("functools"),
     S("collections"), S("pathlib"), S("re"), S("copy"), S("pickle")}

qiskit_prefixes == {S("qiskit"), S("qiskit_")}

\* the blank entry that separates two groups
Blank == <<>>

\* ' '.join(import_stmt.strip().split())
NormalizeWhitespace(import_stmt) == Join(S(" "), Split(Strip(import_stmt)))

RECURSIVE DedupFrom(_, _, _)
DedupFrom(stmts, seen, unique_imports) ==
    IF stmts = <<>> THEN unique_imports
    ELSE LET n == NormalizeWhitespace(Head(stmts))
         IN IF n # <<>> /\ n \notin seen
            THEN DedupFrom(Tail(stmts), seen \cup {n}, Append(unique_imports, n))
            ELSE DedupFrom(Tail(stmts), seen, unique_imports)

\* a mutant: blank entries are not skipped
deduplicate_keeps_blank(stmts) ==
    LET RECURSIVE go(_, _, _)
        go(rest, seen, acc) ==
            IF rest = <<>> THEN acc
            ELSE LET n == NormalizeWhitespace(Head(rest))
                 IN IF n \notin seen
                    THEN go(Tail(rest), seen \cup {n}, Append(acc, n))
                    ELSE go(Tail(rest), seen, acc)
    IN go(stmts, {}, <<>>)

\* a mutant: no entry is skipped as already seen
deduplicate_keeps_all(stmts) ==
    SelectSeq([i \in 1..Len(stmts) |-> NormalizeWhitespace(stmts[i])], LAMBDA n : n # <<>>)

deduplicate(stmts) == DedupFrom(stmts, {}, <<>>)

\* re.match(r'from\s+([^\s]+)\s+import', import_stmt): group 1, or <<>> when
\* there is no match
FromModuleMatch(s) ==
    LET nonws(from) == {i \in from..Len(s) : ~IsSpace(s[i])}
        ws(from) == {i \in from..Len(s) : IsSpace(s[i])}
    IN IF ~(StartsWith(s, S("from")) /\ Len(s) >= 5 /\ IsSpace(s[5])) \/ nonws(5) = {}
       THEN <<>>
       ELSE LET a == Min(nonws(5))
            IN IF ws(a) = {} THEN <<>>
               ELSE LET b == Min(ws(a)) - 1
                    IN IF nonws(b + 1) = {} THEN <<>>
                       ELSE IF StartsWith(Drop(s, Min(nonws(b + 1)) - 1), S("import"))
                            THEN SubSeq(s, a, b)
                            ELSE <<>>

extract_module_name(stmt) ==
    LET import_stmt == Strip(stmt)
    IN IF StartsWith(import_stmt, S("import "))
       THEN LET module_part == Strip(SplitFirst(Drop(import_stmt, 7), S(" as ")))
            IN Strip(SplitFirst(module_part, S(",")))
       ELSE IF StartsWith(import_stmt, S("from "))
            THEN FromModuleMatch(import_stmt)
            ELSE <<>>

classify_import(import_stmt) ==
    LET module_name == extract_module_name(import_stmt)
        root_module == SplitFirst(module_name, S("."))
    IN IF StartsWith(Strip(import_stmt), S("from .")) THEN "local"
       ELSE IF \E prefix \in qiskit_prefixes : StartsWith(module_name, prefix) THEN "qiskit"
       ELSE IF root_module \in stdlib_modules THEN "stdlib"
       ELSE "third_party"

GroupNames == <<"stdlib", "third_party", "qiskit", "local">>

\* a mutant: the relative imports are put in no group
group_imports_no_local(stmts) ==
    [g \in Range(GroupNames) |->
        IF g = "local" THEN <<>>
        ELSE SelectSeq(stmts, LAMBDA s : classify_import(s) = g)]

\* _group_imports
group_imports(stmts) ==
    [g \in Range(GroupNames) |-> SelectSeq(stmts, LAMBDA s : classify_import(s) = g)]

\* the loop of _sort_and_format, from the k-th group name on
RECURSIVE FormatFrom(_, _)
FormatFrom(grouped, k) ==
    IF k > Len(GroupNames) THEN <<>>
    ELSE LET group_name == GroupNames[k]
             group_imports_ == grouped[group_name]
             separator ==
                 IF /\ group_name # "local"
                    /\ \E g \in {"third_party", "qiskit", "local"} \ {group_name} :
                           grouped[g] # <<>>
                 THEN <<Blank>> ELSE <<>>
         IN (IF group_imports_ # <<>>
             THEN Sorted(group_imports_) \o separator
             ELSE <<>>) \o FormatFrom(grouped, k + 1)

\* a mutant: the groups are emitted in insertion order, unsorted
sort_and_format_unsorted(grouped) ==
    LET RECURSIVE go(_)
        go(k) ==
            IF k > Len(GroupNames) THEN <<>>
            ELSE (IF grouped[GroupNames[k]] # <<>>
                  THEN grouped[GroupNames[k]] \o
                       (IF /\ GroupNames[k] # "local"
                           /\ \E g \in {"third_party", "qiskit", "local"} \ {GroupNames[k]} :
                                  grouped[g] # <<>>
                        THEN <<Blank>> ELSE <<>>)
                  ELSE <<>>) \o go(k + 1)
    IN go(1)

sort_and_format(grouped) == FormatFrom(grouped, 1)

normalize(stmts) ==
    IF stmts = <<>> THEN <<>>
    ELSE sort_and_format(group_imports(deduplicate(stmts)))

(***************************************************************************)
(* ComponentCards and the dependency resolver                              *)
(*                                                                         *)
(* quantum_forge_v5.run imports compose from core.pipeline_composer and    *)
(* calls it, but no file of the repository defines it: the resolver        *)
(* (provider index, Kahn's algorithm, conflicts) is modelled from section  *)
(* 4.1 of the specification.                                               *)
(***************************************************************************)

\* [comp["name"] for comp in components]
Names(comps) == [i \in 1..Len(comps) |-> comps[i].name]

\* provider index: the components providing a resource, in input order
Providers(comps, resource) ==
    SelectSeq(Names(comps),
              LAMBDA n : \E i \in 1..Len(comps) :
                             comps[i].name = n /\ resource \in Range(comps[i].provides))

\* a mutant: a consumer depends on the first provider of a resource only
DirectDepsFirstProvider(comps, i) ==
    {j \in 1..Len(comps) :
        \E r \in Range(comps[i].needs) \cap Range(comps[j].provides) :
            \A k \in 1..(j - 1) : r \notin Range(comps[k].provides)}

\* direct dependency set of component i: every provider of every needed resource
DirectDeps(comps, i) ==
    {j \in 1..Len(comps) : Range(comps[i].needs) \cap Range(comps[j].provides) # {}}

\* a mutant: the newly ready dependents are enqueued in reverse scan order
NewlyReadyReversed(comps, indeg, u) ==
    SelectSeq([i \in 1..Len(comps) |-> Len(comps) + 1 - i],
              LAMBDA i : u \in DirectDeps(comps, i) /\ indeg[i] = 1)

\* the dependents that reach in-degree zero when u is dequeued, in scan order
NewlyReady(comps, indeg, u) ==
    SelectSeq([i \in 1..Len(comps) |-> i],
              LAMBDA i : u \in DirectDeps(comps, i) /\ indeg[i] = 1)

RECURSIVE KahnLoop(_, _, _, _)
KahnLoop(comps, indeg, queue, result) ==
    IF queue = <<>> THEN result
    ELSE LET u == Head(queue)
             indeg2 == [i \in 1..Len(comps) |->
                           IF u \in DirectDeps(comps, i) THEN indeg[i] - 1 ELSE indeg[i]]
         IN KahnLoop(comps, indeg2, Tail(queue) \o NewlyReady(comps, indeg, u),
                     Append(result, u))

\* Kahn's algorithm: the scheduled component indices, in execution order
KahnOrder(comps) ==
    LET indeg == [i \in 1..Len(comps) |-> Cardinality(DirectDeps(comps, i))]
        ready == SelectSeq([i \in 1..Len(comps) |-> i], LAMBDA i : indeg[i] = 0)
    IN KahnLoop(comps, indeg, ready, <<>>)

\* a list without its repeated entries, first occurrences kept in order
RECURSIVE Unique(_)
Unique(list) ==
    IF list = <<>> THEN <<>>
    ELSE LET init == Unique(SubSeq(list, 1, Len(list) - 1))
         IN IF list[Len(list)] \in Range(init) THEN init ELSE Append(init, list[Len(list)])

RECURSIVE Flatten(_)
Flatten(lists) == IF lists = <<>> THEN <<>> ELSE Head(lists) \o Flatten(Tail(lists))

\* the resources some component provides, in order of first appearance
ProvidedResources(comps) == Unique(Flatten([i \in 1..Len(comps) |-> comps[i].provides]))

\* one conflict entry ("<resource>" provided by [<names>]) per resource with
\* more than one provider
Conflicts(comps) ==
    LET res == ProvidedResources(comps)
        multi == SelectSeq(res, LAMBDA r : Len(Providers(comps, r)) > 1)
    IN [k \in 1..Len(multi) |-> [resource |-> multi[k], providers |-> Providers(comps, multi[k])]]

NoError == [kind |-> "none", remaining |-> {}]
NoPlan == [status |-> "none", path |-> "none", input |-> <<>>, execution_order |-> <<>>,
           conflicts |-> <<>>, error |-> NoError]

Plan(path, input, order, conflicts) ==
    [status |-> "plan", path |-> path, input |-> input, execution_order |-> order,
     conflicts |-> conflicts, error |-> NoError]

Raised(path, input, kind, remaining) ==
    [status |-> "raised", path |-> path, input |-> input, execution_order |-> <<>>,
     conflicts |-> <<>>, error |-> [kind |-> kind, remaining |-> remaining]]

\* Resolve(componentCards): the plan, or CycleDetected{remaining}
compose(comps) ==
    LET order == KahnOrder(comps)
    IN IF Len(order) < Len(comps)
       THEN Raised("compose", Names(comps), "CycleDetected",
                   {comps[i].name : i \in (1..Len(comps)) \ Range(order)})
       ELSE Plan("compose", Names(comps), [k \in 1..Len(order) |-> comps[order[k]].name],
                 Conflicts(comps))

(***************************************************************************)
(* quantum_forge_v5.py: run, step 6 with the pipeline agent's failure      *)
(* simulated                                                               *)
(***************************************************************************)

\* pipeline_plan = {"execution_order": [names], "conflicts": [], ...}
simulated_failure_plan(comps) == Plan("run_fallback", Names(comps), Names(comps), <<>>)

(***************************************************************************)
(* quantum_forge_v5.py: run, the except clause around all its steps        *)
(***************************************************************************)

\* except Exception as e: raise RuntimeError(error_msg), error_msg a text made
\* of the elapsed time and str(e)
run_except(error) == [kind |-> "RuntimeError", remaining |-> {}]

\* what run raises to its caller when a step raises error, or does not raise
RunOutcome(error) == IF error.kind = "none" THEN NoError ELSE run_except(error)

\* the error a run of assemble raised
AssembleError(run) ==
    IF run.status = "ValueError" THEN [kind |-> "ValueError", remaining |-> {}] ELSE NoError

(***************************************************************************)
(* core/llm_engine.py: LLMEngine.plan_pipeline                             *)
(*                                                                         *)
(* A response of the reasoning service is modelled by what                 *)
(* _parse_json_with_retry makes of it: no JSON at all, or a JSON value.    *)
(***************************************************************************)

max_retries == 3

\* _validate_pipeline_plan: the three fields are there and execution_order is
\* a list
validate_pipeline_plan(data) ==
    /\ data.kind = "object"
    /\ {"execution_order", "dependency_graph", "conflicts"} \subseteq data.fields
    /\ data.order_is_list

\* return parsed_data: the response is the plan
PlanFromResponse(comps, data) ==
    Plan("plan_pipeline", Names(comps), data.execution_order, data.conflicts)

(***************************************************************************)
(* core/pipeline_composer.py: IntelligentPipelineComposer                  *)
(***************************************************************************)

\* str.upper() on the model's alphabet
Upper(s) ==
    [i \in 1..Len(s) |->
        IF Ord(s[i]) >= Ord("a") /\ Ord(s[i]) <= Ord("z")
        THEN Alphabet[Ord(s[i]) - Ord("a") + Ord("A")]
        ELSE s[i]]

\* the loop of _parse_pipeline_response over the parsed list
RECURSIVE ValidPipeline(_, _, _)
ValidPipeline(pipeline, valid_components, valid_pipeline) ==
    IF pipeline = <<>> THEN valid_pipeline
    ELSE LET component == Head(pipeline)
         IN IF /\ component.is_str
               /\ component.text \in Range(valid_components)
               /\ component.text \notin Range(valid_pipeline)
            THEN ValidPipeline(Tail(pipeline), valid_components,
                               Append(valid_pipeline, component.text))
            ELSE ValidPipeline(Tail(pipeline), valid_components, valid_pipeline)

\* a mutant: the missing components are not appended
parse_pipeline_response_no_missing(response, valid_components) ==
    ValidPipeline(response.items, valid_components, <<>>)

\* a mutant: repeated entries of the response are kept
parse_pipeline_response_keeps_repeats(response, valid_components) ==
    LET kept == SelectSeq(response.items,
                          LAMBDA c : c.is_str /\ c.text \in Range(valid_components))
        texts == [i \in 1..Len(kept) |-> kept[i].text]
    IN texts \o SelectSeq(valid_components, LAMBDA comp : comp \notin Range(texts))

\* _parse_pipeline_response for a response that json.loads reads as a list
parse_pipeline_response(response, valid_components) ==
    LET valid_pipeline == ValidPipeline(response.items, valid_components, <<>>)
        missing_components ==
            SelectSeq(valid_components, LAMBDA comp : comp \notin Range(valid_pipeline))
    IN valid_pipeline \o missing_components

\* the priority loop shared by the four _*_pipeline_pattern methods
RECURSIVE PriorityLoop(_, _, _)
PriorityLoop(priority_order, comps, pipeline) ==
    IF priority_order = <<>> THEN pipeline
    ELSE LET hits == {i \in 1..Len(comps) :
                         /\ \E keyword \in Head(priority_order) : Contains(comps[i], keyword)
                         /\ comps[i] \notin Range(pipeline)}
         IN PriorityLoop(Tail(priority_order), comps,
                         IF hits = {} THEN pipeline ELSE Append(pipeline, comps[Min(hits)]))

\* a mutant: the unmatched components are not appended
pipeline_pattern_no_unmatched(priority_order, comps) ==
    PriorityLoop(priority_order, comps, <<>>)

pipeline_pattern(priority_order, comps) ==
    LET pipeline == PriorityLoop(priority_order, comps, <<>>)
    IN pipeline \o SelectSeq(comps, LAMBDA component : component \notin Range(pipeline))

tfim_priority_order ==
    << {S("ModelGenerator"), S("Model")},
       {S("ParameterExtractor"), S("Parameter")},
       {S("HamiltonianBuilder"), S("Hamiltonian")},
       {S("VQECircuitBuilder"), S("VQE"), S("Circuit")},
       {S("VQEOptimizer"), S("Optimizer")},
       {S("VQEExecutor"), S("Executor")} >>

qaoa_priority_order ==
    << {S("GraphProblem"), S("Graph"), S("Problem")},
       {S("HamiltonianBuilder"), S("Hamiltonian"), S("Cost")},
       {S("QAOACircuitBuilder"), S("QAOA"), S("Circuit")},
       {S("QAOAOptimizer"), S("Optimizer")},
       {S("QAOAExecutor"), S("Executor")} >>

grover_priority_order ==
    << {S("OracleBuilder"), S("Oracle")},
       {S("DiffuserBuilder"), S("Diffuser")},
       {S("GroverCircuitBuilder"), S("Grover"), S("Circuit")},
       {S("GroverExecutor"), S("Executor")} >>

generic_priority_order ==
    << {S("ModelGenerator"), S("Model"), S("Parameter")},
       {S("HamiltonianBuilder"), S("Hamiltonian")},
       {S("CircuitBuilder"), S("Circuit"), S("Ansatz")},
       {S("Optimizer"), S("Optimization")},
       {S("Executor"), S("Execution")} >>

fallback_pipeline_design(intent_problem_type, names) ==
    LET problem_type == Upper(intent_problem_type)
    IN IF Contains(problem_type, S("TFIM")) THEN pipeline_pattern(tfim_priority_order, names)
       ELSE IF Contains(problem_type, S("QAOA")) THEN pipeline_pattern(qaoa_priority_order, names)
       ELSE IF Contains(problem_type, S("GROVER"))
            THEN pipeline_pattern(grover_priority_order, names)
            ELSE pipeline_pattern(generic_priority_order, names)

\* compose_execution_pipeline: the order it returns and the path that made it
compose_execution_pipeline(intent_problem_type, names, response) ==
    IF names = <<>> THEN Plan("trivial", names, <<>>, <<>>)
    ELSE IF Len(names) = 1 THEN Plan("trivial", names, names, <<>>)
    ELSE IF response.kind = "list"
         THEN Plan("parsed", names, parse_pipeline_response(response, names), <<>>)
         ELSE Plan("rule_fallback", names,
                   fallback_pipeline_design(intent_problem_type, names), <<>>)

(***************************************************************************)
(* The CodeCell store ("Memory")                                           *)
(*                                                                         *)
(* core/code_assembler.py and quantum_forge_v5.run use a Memory with add   *)
(* and export from core.execution_memory, which defines neither: the store *)
(* is modelled from section 3 of the specification (ordered, keyed by id,  *)
(* overwritten in place when an id is added twice).                        *)
(***************************************************************************)

\* a mutant: a cell whose id is stored already is stored once more
MemoryAddAppends(cells, cell) == Append(cells, cell)

\* a mutant: a cell whose id is stored already takes the last place
MemoryAddMovesLast(cells, cell) ==
    Append(SelectSeq(cells, LAMBDA c : c.id # cell.id), cell)

\* Memory.add(cell)
MemoryAdd(cells, cell) ==
    IF \E i \in 1..Len(cells) : cells[i].id = cell.id
    THEN [i \in 1..Len(cells) |-> IF cells[i].id = cell.id THEN cell ELSE cells[i]]
    ELSE Append(cells, cell)

\* Memory.export(): the cells in stored order
MemoryExport(cells) == cells

(***************************************************************************)
(* core/code_assembler.py                                                  *)
(*                                                                         *)
(* A text of several lines (a str with "\n" in it) is the sequence of its  *)
(* lines. A for loop that builds up lists and sets is a fold of its body   *)
(* over the list it iterates.                                              *)
(***************************************************************************)

\* for item in items: acc = step(acc, item)
RECURSIVE FoldLeft(_, _, _)
FoldLeft(step(_, _), acc, items) ==
    IF items = <<>> THEN acc
    ELSE FoldLeft(step, step(acc, Head(items)), Tail(items))

\* _extract_function_name, of a stripped line
FunctionNameOf(line) ==
    IF StartsWith(line, S("def ")) THEN Strip(SplitFirst(Drop(line, 4), S("(")))
    ELSE <<>>

\* _extract_function_name
extract_function_name(code_line) == FunctionNameOf(Strip(code_line))

\* _extract_definition_name, of a stripped line
DefinitionNameOf(line) ==
    IF Contains(line, S(" = ")) /\ ~StartsWith(line, S("def "))
    THEN Strip(SplitFirst(line, S(" = ")))
    ELSE <<>>

\* _extract_definition_name
extract_definition_name(code_line) == DefinitionNameOf(Strip(code_line))

\* a or b, for two str
Or(a, b) == IF a # <<>> THEN a ELSE b

\* name = _extract_function_name(code_line) or _extract_definition_name(code_line)
DefinedName(code_line) ==
    Or(extract_function_name(code_line), extract_definition_name(code_line))

\* the four replace calls of _resolve_naming_conflict
Rename(code_line, name, new_name) ==
    Replace(Replace(Replace(Replace(code_line,
        S(" ") \o name \o S("("), S(" ") \o new_name \o S("(")),
        S("def ") \o name \o S("("), S("def ") \o new_name \o S("(")),
        S(" ") \o name \o S(" ="), S(" ") \o new_name \o S(" =")),
        name \o S(" ="), new_name \o S(" ="))

\* a mutant: the line is renamed whether or not its name is in use
RenameAlways(code_line, name, used_names, cell_id) ==
    IF name # <<>> THEN Rename(code_line, name, name \o S("__") \o cell_id)
    ELSE code_line

\* a mutant: the line is never renamed
RenameNever(code_line, name, used_names, cell_id) == code_line

\* if name and name in used_names: rename with the suffix __<cell_id>
RenameIfUsed(code_line, name, used_names, cell_id) ==
    IF name # <<>> /\ name \in used_names
    THEN Rename(code_line, name, name \o S("__") \o cell_id)
    ELSE code_line

\* _resolve_naming_conflict
resolve_naming_conflict(code_line, used_names, cell_id) ==
    RenameIfUsed(code_line, DefinedName(code_line), used_names, cell_id)

\* isalnum of the variable part, its underscores taken out
IsSimpleName(var_part) ==
    IsAlnum(Replace(Replace(var_part, S("_"), <<>>), S("__"), <<>>))

\* _is_definition_not_invoke, of a stripped line
IsDefinition(d) ==
    IF d = <<>> THEN FALSE
    ELSE IF \E pattern \in {S("build_"), S("run_"), S("create_"), S("tfim_hea(")} :
                Contains(d, pattern)
    THEN FALSE
    ELSE IF Contains(d, S("(")) /\ Contains(d, S(")")) /\ Contains(d, S("="))
    THEN FALSE
    ELSE IF Contains(d, S("="))
    THEN IsSimpleName(Strip(SplitFirst(d, S("="))))
    ELSE FALSE

\* a mutant: every non-empty definition line passes
is_definition_not_invoke_all(definition) == Strip(definition) # <<>>

\* _is_definition_not_invoke
is_definition_not_invoke(definition) == IsDefinition(Strip(definition))

\* used_names.add(name) if name
AddName(used_names, name) == IF name # <<>> THEN used_names \cup {name} ELSE used_names

\* all_helpers.append(processed_helper) and the recording of its name
AddHelper(acc, processed_helper) ==
    [acc EXCEPT !.helpers = Append(@, processed_helper),
                !.used_names = AddName(@, extract_function_name(processed_helper))]

\* the body of "for helper in cell.helpers"
HelperStep(acc, helper) ==
    AddHelper(acc, resolve_naming_conflict(helper, acc.used_names, acc.cell_id))

\* filtered_definitions.append(processed_def) and the recording of its name
AddDefinition(acc, processed_def) ==
    [acc EXCEPT !.definitions = Append(@, processed_def),
                !.used_names = AddName(@, extract_definition_name(processed_def))]

\* the body of "for definition in cell.definitions"
DefinitionStep(acc, definition) ==
    IF is_definition_not_invoke(definition)
    THEN AddDefinition(acc, resolve_naming_conflict(definition, acc.used_names, acc.cell_id))
    ELSE acc

\* the body of "for cell in code_cells"
CellStep(acc, cell) ==
    FoldLeft(DefinitionStep,
             FoldLeft(HelperStep, [acc EXCEPT !.cell_id = cell.id], cell.helpers),
             cell.definitions)

\* the state of the loops before the first cell
MergeStart ==
    [cell_id |-> <<>>, helpers |-> <<>>, definitions |-> <<>>, used_names |-> {}]

\* _merge_code_sections_fixed: (all_helpers, filtered_definitions)
merge_code_sections_fixed(code_cells) == FoldLeft(CellStep, MergeStart, code_cells)

\* the lines the loops go through: of each cell its helpers, then its
\* definitions
WorkOf(cell) ==
    [k \in 1..Len(cell.helpers) |->
        [cell_id |-> cell.id, kind |-> "helper", line |-> cell.helpers[k]]]
    \o [k \in 1..Len(cell.definitions) |->
        [cell_id |-> cell.id, kind |-> "definition", line |-> cell.definitions[k]]]

Work(code_cells) == Flatten([k \in 1..Len(code_cells) |-> WorkOf(code_cells[k])])

\* one pass of the inner loops, on the line item
LineStep(acc, item) ==
    IF item.kind = "helper"
    THEN HelperStep([acc EXCEPT !.cell_id = item.cell_id], item.line)
    ELSE DefinitionStep([acc EXCEPT !.cell_id = item.cell_id], item.line)

\* what a pass appended to all_helpers or filtered_definitions, if anything
Appended(before, after) ==
    IF Len(after.helpers) > Len(before.helpers)
    THEN <<after.helpers[Len(after.helpers)]>>
    ELSE IF Len(after.definitions) > Len(before.definitions)
    THEN <<after.definitions[Len(after.definitions)]>>
    ELSE <<>>

NoItem == [cell_id |-> <<>>, kind |-> "none", line |-> <<>>]

\* the loops not started: no cells, nothing passed
NotMerging ==
    [cells |-> <<>>, passed |-> 0, acc |-> MergeStart, item |-> NoItem,
     used_before |-> {}, appended |-> <<>>]

\* the loops after one more pass
MergePass(m) ==
    [m EXCEPT !.passed = @ + 1,
              !.acc = LineStep(m.acc, Work(m.cells)[m.passed + 1]),
              !.item = Work(m.cells)[m.passed + 1],
              !.used_before = m.acc.used_names,
              !.appended = Appended(m.acc, LineStep(m.acc, Work(m.cells)[m.passed + 1]))]

IdentChars == Letters \cup Digits \cup {"_"}

ReservedNames ==
    {S("def"), S("class"), S("import"), S("from"), S("if"), S("else"), S("return")}

\* hash(s) in a process whose str hashes are process_hash; hash("") is 0 in
\* every process
Hash(process_hash, s) == IF s = <<>> THEN 0 ELSE process_hash[s]

\* re.sub(r'[^a-zA-Z0-9_]', '_', param_name)
Sanitize(param_name) ==
    [i \in 1..Len(param_name) |->
        IF param_name[i] \in IdentChars THEN param_name[i] ELSE "_"]

\* a mutant: a leading digit is kept
PrefixDigitNever(clean_name) == clean_name

\* if clean_name and clean_name[0].isdigit(): clean_name = "param_" + clean_name
PrefixDigit(clean_name) ==
    IF clean_name # <<>> /\ clean_name[1] \in Digits THEN S("param_") \o clean_name
    ELSE clean_name

\* a mutant: a reserved word is kept as the name
DefaultNameNever(clean_name, param_name, process_hash) ==
    IF clean_name = <<>> THEN S("param_0") ELSE clean_name

\* if not clean_name or clean_name in [reserved words]: param_<hash % 1000>
DefaultName(clean_name, param_name, process_hash) ==
    IF clean_name = <<>> \/ clean_name \in ReservedNames
    THEN S("param_") \o Str(Hash(process_hash, param_name) % 1000)
    ELSE clean_name

\* _clean_param_name
clean_param_name(param_name, process_hash) ==
    DefaultName(PrefixDigit(Sanitize(param_name)), param_name, process_hash)

\* the part of a compound name before "__", or the name
BaseName(var_name) ==
    IF Contains(var_name, S("__")) THEN SplitFirst(var_name, S("__")) ELSE var_name

\* the name _clean_definitions gives the variable of an assignment
CleanVarName(definition, process_hash) ==
    clean_param_name(BaseName(Strip(SplitOnce(definition, S("="))[1])), process_hash)

\* if clean_var_name not in seen_vars: append "<clean_var_name> = <value>"
AddCleaned(acc, clean_var_name, value_part) ==
    IF clean_var_name \notin acc.seen_vars
    THEN [acc EXCEPT !.cleaned_definitions =
                         Append(@, clean_var_name \o S(" = ") \o Strip(value_part)),
                     !.seen_vars = @ \cup {clean_var_name}]
    ELSE acc

\* a mutant: a definition is kept under its name as merged
CleanStepKeepsName(acc, definition) ==
    IF Strip(definition) = <<>> THEN acc
    ELSE [acc EXCEPT !.cleaned_definitions = Append(@, definition)]

\* the body of "for definition in definitions"
CleanStep(acc, definition) ==
    IF Strip(definition) = <<>> THEN acc
    ELSE IF Contains(definition, S("="))
    THEN AddCleaned(acc, CleanVarName(definition, acc.process_hash),
                    SplitOnce(definition, S("="))[2])
    ELSE [acc EXCEPT !.cleaned_definitions = Append(@, definition)]

\* _clean_definitions
clean_definitions(definitions, process_hash) ==
    FoldLeft(CleanStep,
             [process_hash |-> process_hash, cleaned_definitions |-> <<>>, seen_vars |-> {}],
             definitions).cleaned_definitions

\* the places of the lines that are not blank
NonBlankLines(lines) == {i \in 1..Len(lines) : Strip(lines[i]) # <<>>}

\* str.lstrip(), str.rstrip()
LStrip(s) == SubSeq(s, Min({i \in 1..Len(s) : ~IsSpace(s[i])} \cup {Len(s) + 1}), Len(s))

RStrip(s) == SubSeq(s, 1, Max({i \in 1..Len(s) : ~IsSpace(s[i])} \cup {0}))

\* line i of lines first to last of a text, the text stripped
StrippedLine(lines, first, last, i) ==
    IF first = last THEN Strip(lines[i])
    ELSE IF i = first THEN LStrip(lines[i])
    ELSE IF i = last THEN RStrip(lines[i])
    ELSE lines[i]

\* the lines of a text from the first to the last that is not blank
Between(lines, keep) ==
    IF keep = {} THEN <<<<>>>>
    ELSE [k \in 1..(Max(keep) - Min(keep) + 1) |->
             StrippedLine(lines, Min(keep), Max(keep), Min(keep) + k - 1)]

\* text.strip().split('\n') for a text given as its lines
StripLines(lines) == Between(lines, NonBlankLines(lines))

\* if not line.startswith('    '): line = '    ' + line.strip()
Indented(line) ==
    IF StartsWith(line, S("    ")) THEN line ELSE S("    ") \o Strip(line)

\* the comment, the lines that are not blank and the separator of one cell
Block(cell_id, invoke_lines) ==
    <<S("    # ") \o cell_id>>
    \o [k \in 1..Len(invoke_lines) |-> Indented(invoke_lines[k])]
    \o <<Blank>>

\* a mutant: a cell without invocation code gets a block too
CellBlockAlways(cell) ==
    Block(cell.id, SelectSeq(StripLines(cell.invoke), LAMBDA l : Strip(l) # <<>>))

\* the body of "for cell in code_cells" in _generate_main_body
CellBlock(cell) ==
    IF NonBlankLines(cell.invoke) = {} THEN <<>>
    ELSE Block(cell.id, SelectSeq(StripLines(cell.invoke), LAMBDA l : Strip(l) # <<>>))

\* if body_lines: the output statements are added
WithOutput(body_lines) ==
    IF body_lines # <<>>
    THEN body_lines \o <<S("    # Output results"),
                         S("    print(f'Ground state energy: {energy:.6f}')"),
                         S("    return energy")>>
    ELSE body_lines

\* _generate_main_body, for a parameter map without aliases
generate_main_body(code_cells, pipeline_plan, param_map) ==
    WithOutput(Flatten([k \in 1..Len(code_cells) |-> CellBlock(code_cells[k])]))

\* _infer_param_type, on a value given as [type, text]: its Python type and
\* its repr
infer_param_type(value) ==
    CASE value.type = "NoneType" -> S("Any")
      [] value.type = "bool" -> S("bool")
      [] value.type = "int" -> S("int")
      [] value.type = "float" -> S("float")
      [] value.type = "str" -> S("str")
      [] value.type = "list" -> S("List")
      [] value.type = "dict" -> S("Dict")
      [] OTHER -> S("Any")

\* param_spec: the type, and the default when the parameter has one
ParamSpec(defaults, param_name, param_value) ==
    [type |-> infer_param_type(param_value),
     has_default |-> HasKey(defaults, param_name) \/ param_value.type # "NoneType",
     default |-> Get(defaults, param_name, param_value)]

\* the body of "for param_name, param_value in all_params.items()"
ArgStep(acc, item) ==
    [acc EXCEPT !.args_spec =
        SetItem(@, clean_param_name(item.key, acc.process_hash),
                ParamSpec(acc.defaults, item.key, item.value))]

\* all_params = defaults.copy(); all_params.update(normalized_params)
AllParams(param_map) ==
    Update(Get(param_map, "defaults", <<>>),
           Get(param_map, "validated", Get(param_map, "normalized_params", <<>>)))

\* _build_args_spec
build_args_spec(task_card, param_map, process_hash) ==
    FoldLeft(ArgStep,
             [process_hash |-> process_hash, defaults |-> Get(param_map, "defaults", <<>>),
              args_spec |-> <<>>],
             AllParams(param_map)).args_spec

(***************************************************************************)
(* core/helper_loader.py                                                   *)
(***************************************************************************)

\* the top-level functions of components/helpers/*.py, as ast.unparse gives
\* them, the body left out
helper_files ==
    <<S("def heisenberg_ansatz(n: int, reps: int) -> QuantumCircuit: ..."),
      S("def build_heisenberg_h(n: int, Jx: float=1.0, Jy: float=1.0, Jz: float=1.0, hz: float=0.0, boundary: str='periodic') -> SparsePauliOp: ..."),
      S("def build_molecular_hamiltonian(molecule, basis_set, atom_string, charge=0, spin=0): ..."),
      S("def run_molecular_vqe(qubit_hamiltonian, ansatz, maxiter=3000): ..."),
      S("def build_tfim_h(n, hx, j, boundary='periodic'): ..."),
      S("def tfim_hea(n, reps): ..."),
      S("def build_uccsd_ansatz(es_problem, mapper): ..."),
      S("def create_cobyla_optimizer(maxiter=1000): ..."),
      S("def create_l_bfgs_b_optimizer(maxiter=1000): ..."),
      S("def create_estimator(): ..."),
      S("def run_vqe(hamiltonian, ansatz, optimizer, estimator): ...")>>

\* node.name of the functions of the helper files
helper_names == [k \in 1..Len(helper_files) |-> extract_function_name(helper_files[k])]

\* func_name = stub.strip().split('(')[0].replace('def ', '')
StubName(stub) == Replace(SplitFirst(Strip(stub), S("(")), S("def "), <<>>)

\* stub_functions: the names of the stubs that start with "def "
stub_functions(helper_stubs) ==
    {StubName(helper_stubs[i]) :
        i \in {k \in 1..Len(helper_stubs) : StartsWith(Strip(helper_stubs[k]), S("def "))}}

\* ast.unparse(node) for the function of the helper files with that name
Unparsed(func_name) ==
    helper_files[CHOOSE i \in 1..Len(helper_files) : helper_names[i] = func_name]

\* the functions of the helper files with these names
RealHelpers(found) == [k \in 1..Len(found) |-> Unparsed(found[k])]

\* a mutant: the stubs themselves are returned
load_helper_functions_keeps_stubs(helper_stubs, iteration) == helper_stubs

\* load_helper_functions, real_helpers: for func_name in stub_functions, in the
\* order this process iterates the set, the function of that name found in the
\* helper files
load_helper_functions(helper_stubs, iteration) ==
    RealHelpers(SelectSeq(iteration, LAMBDA func_name : func_name \in Range(helper_names)))

(***************************************************************************)
(* The emitted text                                                        *)
(*                                                                         *)
(* core/code_assembler.py imports create_complete_program from             *)
(* core.code_templates, which no file of the repository defines: the       *)
(* layout is modelled from section 4.4, step 5, of the specification. The  *)
(* banner's generation time is left out of the text.                       *)
(***************************************************************************)

\* one declared parameter: name, type tag and default value
ParamDecl(item) ==
    item.key \o S(": ") \o item.value.type
    \o (IF item.value.has_default THEN S(" = ") \o item.value.default.text ELSE <<>>)

\* the entry routine: its declaration and its body
EntryRoutine(main_body, args_spec) ==
    <<S("def main(")
      \o Join(S(", "), [k \in 1..Len(args_spec) |-> ParamDecl(args_spec[k])])
      \o S("):")>>
    \o (IF main_body = <<>> THEN <<S("    pass")>> ELSE main_body)

create_complete_program(query, algorithm, imports_, helpers, definitions, main_body, args_spec) ==
    <<S("# ") \o query, S("# Algorithm: ") \o algorithm>>
    \o imports_
    \o helpers
    \o definitions
    \o EntryRoutine(main_body, args_spec)
    \o <<S("if __name__ == '__main__':"), S("    main()")>>

(***************************************************************************)
(* core/code_assembler.py: _add_typing_imports and assemble                *)
(***************************************************************************)

\* PYTHON_TYPE_IMPORTS
PYTHON_TYPE_IMPORTS ==
    {S("Dict"), S("List"), S("Optional"), S("Union"), S("Tuple"), S("Any"), S("Callable")}

\* f": {type_name}" in code_content or f"-> {type_name}" in code_content
Annotates(lines, type_name) ==
    \E i \in 1..Len(lines) : \/ Contains(lines[i], S(": ") \o type_name)
                             \/ Contains(lines[i], S("-> ") \o type_name)

\* needed_imports: the import lines of the type names the text annotates with
needed_imports(lines) ==
    {S("from typing import ") \o type_name :
        type_name \in {t \in PYTHON_TYPE_IMPORTS : Annotates(lines, t)}}

\* sorted(set) for a set of str
RECURSIVE SortedSet(_)
SortedSet(set) ==
    IF set = {} THEN <<>>
    ELSE <<CHOOSE x \in set : \A y \in set : x = y \/ StrLess(x, y)>>
         \o SortedSet(set \ {CHOOSE x \in set : \A y \in set : x = y \/ StrLess(x, y)})

\* import_end_idx: the place of the last import line, counted from 0
ImportEnd(lines) ==
    Max({i \in 1..Len(lines) : \/ StartsWith(lines[i], S("from "))
                               \/ StartsWith(lines[i], S("import "))} \cup {1}) - 1

\* lines.insert(import_end_idx + 1, typing_import) for each, in order
InsertAfter(lines, import_end_idx, typing_imports) ==
    SubSeq(lines, 1, import_end_idx + 1)
    \o typing_imports
    \o SubSeq(lines, import_end_idx + 2, Len(lines))

\* a mutant: the typing imports are added at the end of the text
add_typing_imports_at_end(lines) == lines \o SortedSet(needed_imports(lines))

\* _add_typing_imports
add_typing_imports(lines) ==
    IF needed_imports(lines) = {} THEN lines
    ELSE InsertAfter(lines, ImportEnd(lines), SortedSet(needed_imports(lines)))

\* the objects handed to assemble
Inputs(cells, pipeline_plan, param_map) ==
    [cells |-> cells, pipeline_plan |-> pipeline_plan, param_map |-> param_map]

\* a mutant: _build_args_spec updates defaults itself, not a copy of it
DefaultsAfterInPlace(param_map) == AllParams(param_map)

\* the dict param_map["defaults"] after _build_args_spec: all_params is
\* defaults.copy(), and the update is applied to the copy
DefaultsAfter(param_map) == Get(param_map, "defaults", <<>>)

\* param_map after _build_args_spec and _generate_main_body, which read it
\* with get
ParamMapAfter(param_map) ==
    IF HasKey(param_map, "defaults")
    THEN SetItem(param_map, "defaults", DefaultsAfter(param_map))
    ELSE param_map

\* the cells after assemble: their lists are read into new lists (extend,
\* append), and str.replace and str.strip return new values
CellsAfter(cells) == cells

\* the objects handed to assemble, after it has run to its end
InputsAfter(cells, pipeline_plan, param_map) ==
    Inputs(CellsAfter(cells), pipeline_plan, ParamMapAfter(param_map))

NotAssembled ==
    [done |-> FALSE, status |-> "none", cells |-> <<>>, inputs_after |-> <<>>,
     pipeline_plan |-> <<>>, task_card |-> <<>>,
     param_map |-> <<>>, merged_helpers |-> <<>>, merged_definitions |-> <<>>,
     helpers |-> <<>>, definitions |-> <<>>, main_body |-> <<>>, text |-> <<>>]

\* all_imports: for cell in code_cells: all_imports.extend(cell.imports)
AllImports(code_cells) == Flatten([k \in 1..Len(code_cells) |-> code_cells[k].imports])

\* steps 6 and 7 of assemble: the text from the parts, and what a run leaves
Emitted(run, task_card, normalized_imports, merged, all_helpers, all_definitions, main_body, args_spec) ==
    [run EXCEPT !.status = "returned",
                !.inputs_after = InputsAfter(run.cells, run.pipeline_plan, run.param_map),
                !.merged_helpers = merged.helpers,
                !.merged_definitions = merged.definitions,
                !.helpers = all_helpers,
                !.definitions = all_definitions,
                !.main_body = main_body,
                !.text = add_typing_imports(
                    create_complete_program(Get(task_card, "problem", S("Unknown query")),
                                            Upper(Get(task_card, "algorithm", S("VQE"))),
                                            normalized_imports, all_helpers, all_definitions,
                                            main_body, args_spec))]

\* steps 3.5 to 5 of assemble, from the merged helpers and definitions
AssembleMerged(run, code_cells, pipeline_plan, task_card, param_map, process, merged) ==
    Emitted(run, task_card, normalize(AllImports(code_cells)), merged,
            load_helper_functions(merged.helpers, process.iteration),
            clean_definitions(merged.definitions, process.hash),
            generate_main_body(code_cells, pipeline_plan, param_map),
            build_args_spec(task_card, param_map, process.hash))

\* the inputs of a run, nothing written yet
Run(cells, pipeline_plan, task_card, param_map) ==
    [NotAssembled EXCEPT !.done = TRUE, !.cells = cells,
                         !.inputs_after = Inputs(cells, pipeline_plan, param_map),
                         !.pipeline_plan = pipeline_plan,
                         !.task_card = task_card, !.param_map = param_map]

\* a mutant: an empty store is assembled like any other
assemble_unchecked(cells, pipeline_plan, task_card, param_map, process) ==
    AssembleMerged(Run(cells, pipeline_plan, task_card, param_map), MemoryExport(cells),
                   pipeline_plan, task_card, param_map, process,
                   merge_code_sections_fixed(MemoryExport(cells)))

\* assemble, in a process given by its str hashes and the order it iterates
\* the set of stub names in
assemble(cells, pipeline_plan, task_card, param_map, process) ==
    IF MemoryExport(cells) = <<>>
    THEN [Run(cells, pipeline_plan, task_card, param_map) EXCEPT !.status = "ValueError"]
    ELSE AssembleMerged(Run(cells, pipeline_plan, task_card, param_map), MemoryExport(cells),
                        pipeline_plan, task_card, param_map, process,
                        merge_code_sections_fixed(MemoryExport(cells)))

(***************************************************************************)
(* State: what each subsystem holds before it is used                      *)
(***************************************************************************)

NotRun == [done |-> FALSE, value |-> <<>>]

ResolveIdle ==
    /\ components = <<>>
    /\ component_names = <<>>
    /\ plan = NoPlan
    /\ attempt = 0

ImportsIdle ==
    /\ imports = <<>>
    /\ normalized = NotRun
    /\ renormalized = NotRun

AssembleIdle ==
    /\ memory = <<>>
    /\ added = <<>>
    /\ merging = NotMerging
    /\ assembled = NotAssembled
    /\ reassembled = NotAssembled

\* no call of _build_args_spec yet
NotDeclared == [done |-> FALSE, param_map |-> <<>>, process_hash |-> <<>>, args_spec |-> <<>>]

\* no call of an agent API yet
\* what _parse_json_with_retry makes of a response, by the parts the
\* validators look at; kind "call_error" when _call_openai raised and
\* "not_json" when json.loads did
Data(kind, fields, domain, backend, order_is_list, cells) ==
    [kind |-> kind, fields |-> fields, domain |-> domain, backend |-> backend,
     order_is_list |-> order_is_list, cells |-> cells]

NoData == Data("none", {}, "", "", FALSE, <<>>)
NoCall ==
    [api |-> "none", max_retries |-> 0, attempt |-> 0, status |-> "idle",
     responses |-> <<>>, result |-> NoData]

\* no CacheManager yet
NoCache == [built |-> FALSE]

\* no run of the orchestrator yet
NoOrchestration == [started |-> FALSE]

\* no call of optimize_code_cells yet
NoOptimization == [done |-> FALSE]

DeclaredIdle == declared = NotDeclared
EngineIdle == engine = NoCall
CacheIdle == cache = NoCache
OrchestratorIdle == orchestration = NoOrchestration
OptimizerIdle == optimization = NoOptimization

ServicesIdle ==
    /\ DeclaredIdle
    /\ EngineIdle
    /\ CacheIdle
    /\ OrchestratorIdle
    /\ OptimizerIdle

(***************************************************************************)
(* The plan-producing operations on bounded inputs                         *)
(***************************************************************************)

MaxComponents == 3
MaxNames == 3
MaxResponseItems == 2

CardNames == <<"A", "B", "C", "D", "E">>
Resources == {"x", "y"}

\* needs and provides of a card: at most one resource each
ResourceLists == {<<>>} \cup {<<r>> : r \in Resources}

CardLists ==
    UNION {{[i \in 1..n |-> [name |-> CardNames[i], needs |-> k[i][1], provides |-> k[i][2]]] :
               k \in [1..n -> ResourceLists \X ResourceLists]} : n \in 0..MaxComponents}

\* component names of the keyword-driven composer
ComposerNames ==
    {S("VQEOptimizer"), S("HamiltonianBuilder"), S("ModelGenerator"), S("Reporter")}

NameLists ==
    UNION {{l \in [1..n -> ComposerNames] : \A i, j \in 1..n : i # j => l[i] # l[j]} :
               n \in 0..MaxNames}

ProblemTypes == {S("tfim"), S("QAOA"), S("Grover"), S("heisenberg")}

\* the orders of a list: its permutations
Orders(list) ==
    {[i \in 1..Len(list) |-> list[perm[i]]] : perm \in Permutations(1..Len(list))}

\* what the reasoning service may answer as execution_order: any order of the
\* names, or the input order with a name dropped, repeated or invented
ServiceOrders(names) ==
    Orders(names) \cup {Append(names, "Ghost")} \cup
    (IF names = <<>> THEN {}
     ELSE {SubSeq(names, 1, Len(names) - 1), Append(names, names[1])})

NotAPlan(kind, fields, is_list) ==
    [kind |-> kind, fields |-> fields, order_is_list |-> is_list,
     execution_order |-> <<>>, conflicts |-> <<>>]

\* the parsed responses plan_pipeline may get
PipelineResponses(comps) ==
    {NotAPlan("not_json", {}, FALSE),
     NotAPlan("object", {"execution_order", "conflicts"}, TRUE),
     NotAPlan("object", {"execution_order", "dependency_graph", "conflicts"}, FALSE)}
    \cup
    {[kind |-> "object", fields |-> {"execution_order", "dependency_graph", "conflicts"},
      order_is_list |-> TRUE, execution_order |-> o, conflicts |-> c] :
         o \in ServiceOrders(Names(comps)), c \in {<<>>, Conflicts(comps)}}

RECURSIVE SeqsUpTo(_, _)
SeqsUpTo(set, n) ==
    IF n = 0 THEN {<<>>}
    ELSE LET shorter == SeqsUpTo(set, n - 1)
         IN shorter \cup {Append(s, x) : s \in shorter, x \in set}

\* the responses compose_execution_pipeline may get from call_llm
ComposerResponses(names) ==
    {[kind |-> k, items |-> <<>>] : k \in {"llm_error", "not_json", "not_list"}}
    \cup
    {[kind |-> "list", items |-> items] :
        items \in SeqsUpTo({[is_str |-> TRUE, text |-> n] : n \in Range(names) \cup {S("Ghost")}}
                           \cup {[is_str |-> FALSE, text |-> <<>>]}, MaxResponseItems)}

ResolveInit ==
    /\ \/ components \in CardLists /\ component_names = <<>>
       \/ components = <<>> /\ component_names \in NameLists
    /\ plan = NoPlan
    /\ attempt = 0
    /\ failure = NoError
    /\ ServicesIdle
    /\ ImportsIdle
    /\ AssembleIdle

\* run, step 6: pipeline_plan = compose_pipeline(task_card, components, param_map)
ComposePipeline ==
    /\ plan.status = "none" /\ attempt = 0
    /\ component_names = <<>>
    /\ plan' = compose(components)
    /\ failure' = RunOutcome(compose(components).error)
    /\ UNCHANGED <<serviceVars, components, component_names, attempt, importVars, assembleVars>>

\* run, step 6 with experiment_config.robustness.failed_agent = "pipeline"
SimulatedPipelineFailure ==
    /\ plan.status = "none" /\ attempt = 0
    /\ component_names = <<>>
    /\ plan' = simulated_failure_plan(components)
    /\ UNCHANGED <<serviceVars, components, component_names, attempt, importVars, assembleVars, failure>>

\* LLMEngine.plan_pipeline: one pass of the retry loop
PlanPipelineAttempt ==
    /\ plan.status = "none"
    /\ component_names = <<>>
    /\ attempt < max_retries
    /\ \E data \in PipelineResponses(components) :
          IF validate_pipeline_plan(data)
          THEN plan' = PlanFromResponse(components, data) /\ attempt' = attempt
          ELSE IF attempt = max_retries - 1
               THEN /\ plan' = Raised("plan_pipeline", Names(components), "RuntimeError", {})
                    /\ attempt' = attempt
               ELSE attempt' = attempt + 1 /\ plan' = plan
    /\ UNCHANGED <<serviceVars, components, component_names, importVars, assembleVars, failure>>

\* IntelligentPipelineComposer.compose_execution_pipeline
ComposeExecutionPipeline ==
    /\ plan.status = "none" /\ attempt = 0
    /\ components = <<>>
    /\ \E problem_type \in ProblemTypes, response \in ComposerResponses(component_names) :
          plan' = compose_execution_pipeline(problem_type, component_names, response)
    /\ UNCHANGED <<serviceVars, components, component_names, attempt, importVars, assembleVars, failure>>

ResolveNext ==
    \/ ComposePipeline
    \/ SimulatedPipelineFailure
    \/ PlanPipelineAttempt
    \/ ComposeExecutionPipeline

SpecResolve == ResolveInit /\ [][ResolveNext]_vars

(***************************************************************************)
(* Properties of the plan-producing operations                             *)
(***************************************************************************)

\* component j provides a resource component i needs
ProvidesFor(comps, j, i) ==
    \E r \in Resources : r \in Range(comps[j].provides) /\ r \in Range(comps[i].needs)

\* the components i depends on, directly or through other components
RECURSIVE Upstream(_, _)
Upstream(comps, set) ==
    LET more == set \cup {j \in 1..Len(comps) : \E i \in set : ProvidesFor(comps, j, i)}
    IN IF more = set THEN set ELSE Upstream(comps, more)

DependsOn(comps, i) ==
    Upstream(comps, {j \in 1..Len(comps) : ProvidesFor(comps, j, i)})

OnCycle(comps, i) == i \in DependsOn(comps, i)

Acyclic(comps) == \A i \in 1..Len(comps) : ~OnCycle(comps, i)

\* S: the names of the components that lie on a dependency cycle
CycleNames(comps) == {comps[i].name : i \in {k \in 1..Len(comps) : OnCycle(comps, k)}}

\* the names of the components on a cycle or depending on one
BlockedNames(comps) ==
    {comps[i].name : i \in {k \in 1..Len(comps) :
        OnCycle(comps, k) \/ \E j \in DependsOn(comps, k) : OnCycle(comps, j)}}

Positions(order, name) == {k \in 1..Len(order) : order[k] = name}

\* name appears in order, and every occurrence of provider is before it
StrictlyAfter(order, name, provider) ==
    /\ Positions(order, name) # {}
    /\ Positions(order, provider) # {}
    /\ Max(Positions(order, provider)) < Min(Positions(order, name))

PlanForCards ==
    /\ plan.status # "none"
    /\ components # <<>>
    /\ plan.input = Names(components)

\* C1: for an acyclic needs/provides graph, the execution order of the plan
\* has every component strictly after every component that provides a
\* resource it needs (run's pipeline step and plan_pipeline).
C1_ProvidersFirst ==
    (PlanForCards /\ plan.status = "plan" /\ Acyclic(components)) =>
        \A i, j \in 1..Len(components) :
            ProvidesFor(components, j, i) =>
                StrictlyAfter(plan.execution_order, components[i].name, components[j].name)

\* C2 as stated: on an input with a dependency cycle, the resolver returns no
\* plan and raises CycleDetected reporting exactly the components on a cycle.
C2_ReportsExactlyCycle ==
    (PlanForCards /\ plan.path = "compose" /\ ~Acyclic(components)) =>
        /\ plan.status = "raised"
        /\ plan.error.kind = "CycleDetected"
        /\ plan.error.remaining = CycleNames(components)

\* C2 as amended: on an input with a dependency cycle, the resolver returns no
\* plan and raises CycleDetected reporting the components left unscheduled:
\* those on a cycle and those that depend, directly or not, on one of them.
C2_ReportsUnscheduled ==
    (PlanForCards /\ plan.path = "compose" /\ ~Acyclic(components)) =>
        /\ plan.status = "raised"
        /\ plan.error.kind = "CycleDetected"
        /\ plan.error.remaining = BlockedNames(components)

\* C2 witness: CycleDetected was raised for a cycle with a component
\* downstream of it
C2_Witness ==
    /\ PlanForCards /\ plan.path = "compose"
    /\ plan.status = "raised"
    /\ CycleNames(components) # {}
    /\ BlockedNames(components) # CycleNames(components)

\* every input name exactly once, and no other name
IsPermutation(order, input) ==
    /\ \A n \in Range(input) : Cardinality(Positions(order, n)) = 1
    /\ Range(order) \subseteq Range(input)

MultiProvided(comps) ==
    {r \in Resources :
        Cardinality({i \in 1..Len(comps) : r \in Range(comps[i].provides)}) > 1}

\* C4: the pipeline step of run never fails on a provider conflict and drops
\* none: an acyclic input gets a plan, and the plan's conflicts hold exactly
\* one entry per resource with several providers, naming it and all of them.
C4_ConflictsReported ==
    (PlanForCards /\ plan.path \in {"compose", "run_fallback"}) =>
        /\ Acyclic(components) => plan.status = "plan"
        /\ plan.status = "plan" =>
             /\ \A r \in MultiProvided(components) :
                    Cardinality({k \in 1..Len(plan.conflicts) :
                        /\ plan.conflicts[k].resource = r
                        /\ Range(plan.conflicts[k].providers) =
                             {components[i].name : i \in {m \in 1..Len(components) :
                                 r \in Range(components[m].provides)}}}) = 1
             /\ \A k \in 1..Len(plan.conflicts) :
                    plan.conflicts[k].resource \in MultiProvided(components)

(***************************************************************************)
(* The import normalizer applied to bounded inputs                         *)
(***************************************************************************)

MaxImports == 3

\* raw import statements: duplicates up to whitespace, every group, blanks
ImportPool ==
    {S("import os"), S("  import   os "), S("import numpy as np"),
     S("from qiskit import X"), S("import qiskit_aer"), S("from .a import b"),
     S("import json"), S(" ")}

ImportsInit ==
    /\ ImportsIdle
    /\ failure = NoError
    /\ ServicesIdle
    /\ ResolveIdle
    /\ AssembleIdle

\* a cell's import statement is collected (assemble: all_imports.extend)
AddImport ==
    /\ ~normalized.done
    /\ Len(imports) < MaxImports
    /\ \E raw \in ImportPool : imports' = Append(imports, raw)
    /\ UNCHANGED <<serviceVars, normalized, renormalized, resolveVars, assembleVars, failure>>

\* normalize_imports(all_imports)
Normalize ==
    /\ ~normalized.done
    /\ normalized' = [done |-> TRUE, value |-> normalize(imports)]
    /\ UNCHANGED <<serviceVars, imports, renormalized, resolveVars, assembleVars, failure>>

\* normalize_imports applied to its own output
NormalizeAgain ==
    /\ normalized.done
    /\ ~renormalized.done
    /\ renormalized' = [done |-> TRUE, value |-> normalize(normalized.value)]
    /\ UNCHANGED <<serviceVars, imports, normalized, resolveVars, assembleVars, failure>>

ImportsNext == AddImport \/ Normalize \/ NormalizeAgain

SpecImports == ImportsInit /\ [][ImportsNext]_vars

\* C9: import normalization is idempotent: normalizing the output of normalize
\* returns the same list, entry by entry, separator entries included.
C9_Idempotent ==
    renormalized.done => renormalized.value = normalized.value

\* C9 witness: an input that needed whitespace normalization and fills two
\* groups was normalized twice
C9_Witness ==
    /\ renormalized.done
    /\ Blank \in Range(normalized.value)
    /\ Len(normalized.value) >= 3
    /\ \E i \in 1..Len(imports) : imports[i] # NormalizeWhitespace(imports[i])

NonBlank(list) == SelectSeq(list, LAMBDA e : NormalizeWhitespace(e) # <<>>)

NoTwoEqual(list) ==
    \A i, j \in 1..Len(list) :
        i # j => NormalizeWhitespace(list[i]) # NormalizeWhitespace(list[j])

\* C10 as stated: no two entries of the output of normalize are equal after
\* whitespace normalization (separator entries are entries too).
C10_NoTwoEntriesEqual ==
    normalized.done => NoTwoEqual(normalized.value)

\* C10 as amended: no two non-blank entries of the output of normalize are equal
\* after whitespace normalization.
C10_NoTwoImportsEqual ==
    normalized.done => NoTwoEqual(NonBlank(normalized.value))

\* C10 witness: an input holding the same import twice (up to whitespace) was
\* normalized
C10_Witness ==
    /\ normalized.done
    /\ \E i, j \in 1..Len(imports) :
           /\ i # j
           /\ imports[i] # imports[j]
           /\ NormalizeWhitespace(imports[i]) = NormalizeWhitespace(imports[j])
           /\ NormalizeWhitespace(imports[i]) # <<>>

(***************************************************************************)
(* The store and the assembler on bounded inputs                           *)
(***************************************************************************)

MaxCells == 2
MaxHash == 1

Cell(id, imports_, helpers, definitions, invoke) ==
    [id |-> S(id), imports |-> imports_, helpers |-> helpers,
     definitions |-> definitions, invoke |-> invoke]

\* the CodeCells the code generator may hand over
CellPool ==
    {Cell("c1", <<S("import numpy as np")>>,
          <<S("def compute(x): return x")>>,
          <<S("N = 4")>>,
          <<S("x = compute(N)")>>),
     Cell("c2", <<S("import  numpy as np"), S("from typing import List")>>,
          <<S("def compute(x): return x")>>,
          <<S("N = 5"), S("H = compute(N)")>>,
          <<S("  y = compute(2)"), <<>>, S("    z = y ")>>),
     Cell("c3", <<>>,
          <<S("def compute(x): return x"), S("def compute(x): return x")>>,
          <<>>,
          <<S("  ")>>),
     Cell("c1", <<S("from qiskit.quantum_info import SparsePauliOp")>>,
          <<S("def build_tfim_h(n, hx, j):")>>,
          <<S("boundary = 'periodic'")>>,
          <<S("H = build_tfim_h(4, 1.0, 1.0)")>>),
     Cell("c2", <<S("from qiskit import QuantumCircuit"), S("import os")>>,
          <<S("def build_tfim_h(n, hx, j):"), S("def tfim_hea(n, reps):")>>,
          <<S("tfim_hea = None")>>,
          <<S("ansatz = tfim_hea(4, 2)")>>),
     Cell("c3", <<S("from .local import helper")>>,
          <<S("def run_vqe(hamiltonian, ansatz, optimizer, estimator):")>>,
          <<S("N = 6")>>,
          <<S("energy = run_vqe(H, ansatz, None, None)")>>)}

Value(type, text) == [type |-> type, text |-> S(text)]

Item(key, value) == [key |-> key, value |-> value]

\* the parameter maps handed to assemble
ParamMaps ==
    {<<>>,
     <<Item("validated", <<Item(S("n"), Value("int", "4"))>>),
       Item("defaults", <<Item(S("n"), Value("int", "2")),
                          Item(S("layers"), Value("list", "[1, 2]"))>>)>>,
     <<Item("normalized_params", <<Item(S("from"), Value("int", "0")),
                                   Item(S("2q"), Value("NoneType", "None")),
                                   Item(S("n-qubits"), Value("str", "'a'"))>>)>>}

\* the task cards handed to assemble
TaskCards ==
    {<<>>, <<Item("problem", S("tfim ground state")), Item("algorithm", S("vqe"))>>}

Reverse(list) == [i \in 1..Len(list) |-> list[Len(list) + 1 - i]]

\* the plans handed to assemble: the stored cells' ids in stored order or in
\* the opposite order, or an order that names no stored cell
PipelinePlans(cells) ==
    LET ids == [i \in 1..Len(cells) |-> cells[i].id]
    IN {[execution_order |-> o] : o \in {ids, Reverse(ids), <<S("c9")>>}}

\* the names a run of assemble hashes: the reserved words among the parameter
\* names and the definitions' variable names
HashedNames(cells, param_map) ==
    LET params == Range(Keys(Get(param_map, "validated", Get(param_map, "normalized_params", <<>>))))
                  \cup Range(Keys(Get(param_map, "defaults", <<>>)))
        definitions == Range(Flatten([k \in 1..Len(cells) |-> cells[k].definitions]))
        vars_ == {Strip(SplitFirst(d, S("="))) : d \in definitions}
    IN (params \cup vars_ \cup {SplitFirst(v, S("__")) : v \in vars_}) \cap ReservedNames

\* the orders a process may iterate stub_functions in; a name the helper files
\* do not define yields nothing wherever it comes, and is listed last
IterationOrders(names) ==
    {found \o SortedSet(names \ Range(helper_names)) :
        found \in Orders(SortedSet(names \cap Range(helper_names)))}

\* the processes assemble may run in: str hashes are randomized per process,
\* and with them the order a set of str is iterated in
Processes(cells, param_map) ==
    {[hash |-> h, iteration |-> it] :
        h \in [HashedNames(cells, param_map) -> 0..MaxHash],
        it \in IterationOrders(stub_functions(merge_code_sections_fixed(cells).helpers))}

AssembleInit ==
    /\ AssembleIdle
    /\ failure = NoError
    /\ ServicesIdle
    /\ ImportsIdle
    /\ ResolveIdle

\* run, step 7: memory.add(cell) for a generated CodeCell
AddCell ==
    /\ ~assembled.done
    /\ Len(memory) < MaxCells
    /\ \E cell \in CellPool : memory' = MemoryAdd(memory, cell)
    /\ UNCHANGED <<serviceVars, added, merging, assembled, reassembled, resolveVars, importVars, failure>>

\* run, step 8: assemble_code(memory, pipeline_plan, task_card, param_map)
Assemble ==
    /\ ~assembled.done
    /\ \E pipeline_plan \in PipelinePlans(memory), task_card \in TaskCards,
          param_map \in ParamMaps :
          \E process \in Processes(memory, param_map) :
              assembled' = assemble(memory, pipeline_plan, task_card, param_map, process)
    /\ memory' = assembled'.inputs_after.cells
    /\ failure' = RunOutcome(AssembleError(assembled'))
    /\ UNCHANGED <<serviceVars, added, merging, reassembled, resolveVars, importVars>>

\* assemble on the same inputs, in another process
AssembleAgain ==
    /\ assembled.done
    /\ ~reassembled.done
    /\ \E process \in Processes(memory, assembled.param_map) :
          reassembled' = assemble(memory, assembled.pipeline_plan, assembled.task_card,
                                  assembled.param_map, process)
    /\ memory' = reassembled'.inputs_after.cells
    /\ failure' = RunOutcome(AssembleError(reassembled'))
    /\ UNCHANGED <<serviceVars, added, merging, assembled, resolveVars, importVars>>

AssembleNext == AddCell \/ Assemble \/ AssembleAgain

SpecAssemble == AssembleInit /\ [][AssembleNext]_vars

(***************************************************************************)
(* Properties of the assembled text                                        *)
(***************************************************************************)

\* no two of the entries that define a name define the same name
NoSharedName(entries) ==
    \A i, j \in 1..Len(entries) :
        (i # j /\ DefinedName(entries[i]) # <<>>) =>
            DefinedName(entries[i]) # DefinedName(entries[j])

\* C5: after symbol conflict resolution over the stored cells, no two helper
\* or definition entries define the same final name, neither as
\* _merge_code_sections_fixed returns them nor with the definitions as
\* _clean_definitions emits them.
C5_NoSharedFinalName ==
    assembled.status = "returned" =>
        /\ NoSharedName(assembled.merged_helpers \o assembled.merged_definitions)
        /\ NoSharedName(assembled.merged_helpers \o assembled.definitions)

\* the names of the helpers a cell defines
HelpersOf(cell) ==
    {extract_function_name(cell.helpers[m]) : m \in 1..Len(cell.helpers)} \ {<<>>}

\* the stored cells that define a helper named h
HelperDefiners(cells, h) == {k \in 1..Len(cells) : h \in HelpersOf(cells[k])}

\* the number of lines of the text that define a function named h
DefinitionsOf(text, h) ==
    Cardinality({i \in 1..Len(text) : extract_function_name(text[i]) = h})

\* C6: when k >= 2 stored cells each define a helper named h, the text
\* assemble returns holds exactly one definition of h and, for k - 1 of the
\* cells, exactly one definition of h__<cellId>, and none twice.
C6_OneDefinitionPerCell ==
    assembled.status = "returned" =>
        \A h \in UNION {HelpersOf(memory[k]) : k \in 1..Len(memory)} :
            Cardinality(HelperDefiners(memory, h)) >= 2 =>
                /\ DefinitionsOf(assembled.text, h) = 1
                /\ Cardinality({k \in HelperDefiners(memory, h) :
                       DefinitionsOf(assembled.text, h \o S("__") \o memory[k].id) = 1})
                     = Cardinality(HelperDefiners(memory, h)) - 1
                /\ \A k \in HelperDefiners(memory, h) :
                       DefinitionsOf(assembled.text, h \o S("__") \o memory[k].id) <= 1

\* the lines of the entry routine's body that label the block of cell_id
BlockLabels(main_body, cell_id) ==
    {i \in 1..Len(main_body) : main_body[i] = S("    # ") \o cell_id}

\* C7: if X precedes Y in the plan's execution order and both have an
\* invocation block, X's block is before Y's in the body of the entry routine,
\* whatever order the cells were stored in.
C7_BlocksInPlanOrder ==
    assembled.status = "returned" =>
        \A a, b \in 1..Len(assembled.pipeline_plan.execution_order) :
            (/\ a < b
             /\ BlockLabels(assembled.main_body,
                            assembled.pipeline_plan.execution_order[a]) # {}
             /\ BlockLabels(assembled.main_body,
                            assembled.pipeline_plan.execution_order[b]) # {}) =>
                Max(BlockLabels(assembled.main_body,
                                assembled.pipeline_plan.execution_order[a]))
                  < Min(BlockLabels(assembled.main_body,
                                    assembled.pipeline_plan.execution_order[b]))

\* C8: two runs of assemble on the same cells, plan, task card and parameter
\* map, in whatever processes, return the same text.
C8_ByteIdentical ==
    (reassembled.done /\ reassembled.status = "returned") =>
        reassembled.text = assembled.text

(***************************************************************************)
(* Properties of the normalized import list                                *)
(***************************************************************************)

\* the place of an import's group in the fixed priority order
GroupRank(import_stmt) ==
    CHOOSE k \in 1..Len(GroupNames) : GroupNames[k] = classify_import(import_stmt)

\* the entries of list are in group priority order and, within a group, in
\* ascending code-point order
BucketsInOrder(list) ==
    \A i, j \in 1..Len(list) :
        i < j =>
            /\ GroupRank(list[i]) <= GroupRank(list[j])
            /\ GroupRank(list[i]) = GroupRank(list[j]) => ~StrLess(list[j], list[i])

\* C11: in the output of normalize the groups come in the order stdlib,
\* third-party, qiskit, local, every entry of an earlier group before every
\* entry of a later one, and the entries of a group ascend lexicographically.
C11_BucketsInOrder ==
    normalized.done => BucketsInOrder(NonBlank(normalized.value))

\* C11 witness: an input with two imports of one group given in descending
\* order, and an import of another group, was normalized
C11_Witness ==
    /\ normalized.done
    /\ \E i, j \in 1..Len(imports) :
           /\ i < j
           /\ NonBlank(<<imports[i], imports[j]>>) = <<imports[i], imports[j]>>
           /\ GroupRank(imports[i]) = GroupRank(imports[j])
           /\ StrLess(NormalizeWhitespace(imports[j]), NormalizeWhitespace(imports[i]))
    /\ \E i, j \in 1..Len(imports) :
           /\ NonBlank(<<imports[i], imports[j]>>) = <<imports[i], imports[j]>>
           /\ GroupRank(imports[i]) # GroupRank(imports[j])

\* the blank entries of list stand between every two consecutive groups and
\* nowhere else
SeparatorsBetweenGroups(list) ==
    /\ list # <<>> => (list[1] # Blank /\ list[Len(list)] # Blank)
    /\ \A i \in 1..(Len(list) - 1) :
           /\ ~(list[i] = Blank /\ list[i + 1] = Blank)
           /\ (list[i] # Blank /\ list[i + 1] # Blank) =>
                  GroupRank(list[i]) = GroupRank(list[i + 1])
    /\ \A i \in 2..(Len(list) - 1) :
           (list[i] = Blank /\ list[i - 1] # Blank /\ list[i + 1] # Blank) =>
               GroupRank(list[i - 1]) # GroupRank(list[i + 1])

\* C12: the output of normalize has a blank separator entry between every two
\* consecutive non-empty groups and nowhere else: none at the start or the
\* end, no two adjacent, none when one group only is non-empty.
C12_SeparatorsBetweenGroups ==
    normalized.done => SeparatorsBetweenGroups(normalized.value)

(***************************************************************************)
(* Properties of assemble's failures                                       *)
(***************************************************************************)

\* C13: assemble called on a store without CodeCells raises the empty-input
\* error (ValueError: no CodeCells in the store) and returns no text, whatever
\* the plan, the task card and the parameter map.
C13_EmptyStoreRaises ==
    (assembled.done /\ memory = <<>>) =>
        /\ assembled.status = "ValueError"
        /\ assembled.text = <<>>

\* C13 witness: assemble was called on an empty store with a plan, a task card
\* and a parameter map that are not empty
C13_Witness ==
    /\ assembled.done
    /\ memory = <<>>
    /\ assembled.pipeline_plan.execution_order # <<>>
    /\ assembled.task_card # <<>>
    /\ assembled.param_map # <<>>

\* C14: a fatal error raised while resolving or assembling (CycleDetected with
\* its unscheduled components, the empty-input error) reaches run's caller
\* with the same kind and the same payload.
C14_ErrorsReachCaller ==
    /\ (plan.path = "compose" /\ plan.status = "raised") =>
           (failure.kind = plan.error.kind /\ failure.remaining = plan.error.remaining)
    /\ (assembled.done /\ assembled.status = "ValueError") =>
           failure.kind = "ValueError"

(***************************************************************************)
(* Properties of the typing post-process                                   *)
(***************************************************************************)

\* the number of lines of the text that are the import line of type_name
TypingImports(lines, type_name) ==
    Cardinality({i \in 1..Len(lines) : lines[i] = S("from typing import ") \o type_name})

\* every type name the text annotates with has its import line exactly once
TypingImportsOnce(lines) ==
    \A type_name \in PYTHON_TYPE_IMPORTS :
        Annotates(lines, type_name) => TypingImports(lines, type_name) = 1

\* C15: in the text assemble returns, every well-known type name used in an
\* annotation has its typing import line exactly once, also when a cell's
\* imports already hold the line, and applying _add_typing_imports to that
\* text once more adds no second copy.
C15_TypingImportsOnce ==
    assembled.status = "returned" =>
        /\ TypingImportsOnce(assembled.text)
        /\ TypingImportsOnce(add_typing_imports(assembled.text))

(***************************************************************************)
(* The store under a sequence of add operations                            *)
(***************************************************************************)

MaxAdds == 3

StoreInit ==
    /\ AssembleIdle
    /\ ImportsIdle
    /\ ResolveIdle
    /\ failure = NoError
    /\ ServicesIdle

\* run, step 7: memory.add(cell), the calls so far kept in added
StoreAdd ==
    /\ Len(added) < MaxAdds
    /\ \E cell \in CellPool :
          /\ memory' = MemoryAdd(memory, cell)
          /\ added' = Append(added, cell)
    /\ UNCHANGED <<serviceVars, merging, assembled, reassembled, resolveVars, importVars, failure>>

SpecStore == StoreInit /\ [][StoreAdd]_vars

\* the ids of the cells added, each once, in the order of its first add
FirstAdded(adds) == Unique([i \in 1..Len(adds) |-> adds[i].id])

\* the cell of the last add with this id
LastAdded(adds, id) == adds[Max({i \in 1..Len(adds) : adds[i].id = id})]

\* C16: after any sequence of add operations, export returns each cell id
\* once, in the order of the ids' first add, and the cell it returns for an id
\* is the one of the most recent add of that id.
C16_ExportMatchesAdds ==
    MemoryExport(memory) =
        [k \in 1..Len(FirstAdded(added)) |-> LastAdded(added, FirstAdded(added)[k])]

\* C16 witness: a cell was added, then a cell with another id, then another
\* cell with the id of the first
C16_Witness ==
    /\ Len(added) = 3
    /\ added[1].id = added[3].id
    /\ added[1] # added[3]
    /\ added[2].id # added[1].id
    /\ Len(MemoryExport(memory)) = 2

(***************************************************************************)
(* The inputs of assemble after the call                                   *)
(***************************************************************************)

Invoking(cells) ==
    {k \in 1..Len(cells) : \E i \in 1..Len(cells[k].invoke) : Strip(cells[k].invoke[i]) # <<>>}

\* the lines of the body that are labels of a block
LabelLines(main_body) ==
    {i \in 1..Len(main_body) :
        StartsWith(main_body[i], S("    # ")) /\ main_body[i] # S("    # Output results")}

\* the lines of the body that are statements of a block
StatementLines(main_body) ==
    {i \in 1..Len(main_body) :
        /\ Strip(main_body[i]) # <<>>
        /\ ~StartsWith(main_body[i], S("    # "))
        /\ main_body[i] # S("    print(f'Ground state energy: {energy:.6f}')")
        /\ main_body[i] # S("    return energy")}

\* the statements of the cells' invocation code, as (cell, line) pairs
Statements(cells) ==
    UNION {{<<k, i>> : i \in {j \in 1..Len(cells[k].invoke) :
                                 Strip(cells[k].invoke[j]) # <<>>}} : k \in 1..Len(cells)}

\* C18: the body of the entry routine has one labelled block for each stored
\* cell with invocation code and no other block, whatever the plan's
\* execution order names: a cell without invocation code (empty or whitespace
\* only) gives no label and no statement, and every statement of a cell is in
\* the body.
C18_OneBlockPerInvokingCell ==
    assembled.status = "returned" =>
        /\ \A k \in 1..Len(memory) :
               Cardinality(BlockLabels(assembled.main_body, memory[k].id)) =
                   (IF k \in Invoking(memory) THEN 1 ELSE 0)
        /\ Cardinality(LabelLines(assembled.main_body)) = Cardinality(Invoking(memory))
        /\ Cardinality(StatementLines(assembled.main_body)) = Cardinality(Statements(memory))
        /\ \A s \in Statements(memory) :
               \E i \in StatementLines(assembled.main_body) :
                   Strip(assembled.main_body[i]) = Strip(memory[s[1]].invoke[s[2]])

\* C18 witness: assemble returned for a cell with invocation code and a cell
\* with whitespace only, under an execution order that names neither
C18_Witness ==
    /\ assembled.status = "returned"
    /\ Len(memory) = 2
    /\ Cardinality(Invoking(memory)) = 1
    /\ \A k \in 1..Len(memory) :
           memory[k].id \notin Range(assembled.pipeline_plan.execution_order)
    /\ assembled.pipeline_plan.execution_order # <<>>

(***************************************************************************)
(* The loops of _merge_code_sections_fixed, one line at a time             *)
(***************************************************************************)

MaxMergeCells == 2

\* helpers and definitions a generated cell may hold: a name defined as
\* usual, with other spacing, indented, without spaces, other names, a call
\* assigned to a name and constants assigned to names
MergeContents ==
    {<<<<S("def compute(x): return x")>>, <<S("N = 4")>>>>,
     <<<<S("def compute (x): return x")>>, <<S("N  = 5")>>>>,
     <<<<S("  def compute(x): return compute(x)")>>, <<S(" N = 5"), S("N=6")>>>>,
     <<<<S("def other(x): return x")>>, <<S("M = 1"), S("H = compute(N)")>>>>,
     <<<<>>, <<S("run_count = 3"), S("K = 7")>>>>}

MergePool ==
    {Cell(id, <<>>, content[1], content[2], <<>>) :
        id \in {"c1", "c2", "c3"}, content \in MergeContents}

\* the cell lists handed to _merge_code_sections_fixed: what a store exports
MergeInputs ==
    {cells \in SeqsUpTo(MergePool, MaxMergeCells) :
        \A i, j \in 1..Len(cells) : i # j => cells[i].id # cells[j].id}

MergeInit ==
    /\ ResolveIdle
    /\ ImportsIdle
    /\ memory = <<>>
    /\ added = <<>>
    /\ assembled = NotAssembled
    /\ reassembled = NotAssembled
    /\ failure = NoError
    /\ ServicesIdle
    /\ merging \in {[NotMerging EXCEPT !.cells = cells] : cells \in MergeInputs}

\* one pass of "for helper in cell.helpers" or "for definition in
\* cell.definitions"
MergeLine ==
    /\ merging.passed < Len(Work(merging.cells))
    /\ merging' = MergePass(merging)
    /\ UNCHANGED <<serviceVars, memory, added, assembled, reassembled, resolveVars, importVars, failure>>

SpecMerge == MergeInit /\ [][MergeLine]_vars

\* the name the line of the last pass defines, as the code extracts it
PassedName == DefinedName(merging.item.line)

\* C19: a helper or definition that is emitted is renamed if and only if its
\* extracted name is in the used-names set when it is processed; unrenamed it
\* is emitted as it is, renamed it defines exactly <name>__<cellId> of its own
\* cell, and that name is then in the used-names set.
C19_RenamedIffUsed ==
    (merging.passed > 0 /\ merging.appended # <<>>) =>
        IF PassedName # <<>> /\ PassedName \in merging.used_before
        THEN /\ merging.appended[1] # merging.item.line
             /\ DefinedName(merging.appended[1]) =
                    PassedName \o S("__") \o merging.item.cell_id
             /\ DefinedName(merging.appended[1]) \in merging.acc.used_names
        ELSE merging.appended[1] = merging.item.line

\* the place of component i in an execution order (0 when it is not there)
PlaceOf(comps, order, i) ==
    IF Positions(order, comps[i].name) = {} THEN 0
    ELSE Min(Positions(order, comps[i].name))

\* the components providing something component i needs
ProvidersOf(comps, i) == {j \in 1..Len(comps) : ProvidesFor(comps, j, i)}

\* when component i became ready: at the start (0), or when the last of its
\* providers was emitted
ReadyAt(comps, order, i) ==
    IF ProvidersOf(comps, i) = {} THEN 0
    ELSE Max({PlaceOf(comps, order, j) : j \in ProvidersOf(comps, i)})

\* i is ready before j: earlier, or at the same time and earlier in the input
ReadyBefore(comps, order, i, j) ==
    \/ ReadyAt(comps, order, i) < ReadyAt(comps, order, j)
    \/ ReadyAt(comps, order, i) = ReadyAt(comps, order, j) /\ i < j

\* C20: the resolver breaks ties by input order with a first-in first-out
\* ready queue: components without dependencies are emitted in input order, a
\* component that becomes ready later is emitted after every component that
\* became ready earlier (input order deciding among those that become ready
\* together), and with no needs at all the execution order is the input order.
C20_FifoByInputOrder ==
    (PlanForCards /\ plan.path = "compose" /\ plan.status = "plan") =>
        /\ \A i, j \in 1..Len(components) :
               (i < j /\ ProvidersOf(components, i) = {} /\ ProvidersOf(components, j) = {}) =>
                   PlaceOf(components, plan.execution_order, i)
                       < PlaceOf(components, plan.execution_order, j)
        /\ \A i, j \in 1..Len(components) :
               ReadyBefore(components, plan.execution_order, i, j) =>
                   PlaceOf(components, plan.execution_order, i)
                       < PlaceOf(components, plan.execution_order, j)
        /\ (\A i \in 1..Len(components) : components[i].needs = <<>>) =>
               plan.execution_order = Names(components)

\* C20 witness: the resolver returned an order in which a component that had
\* to wait for a provider comes after a component later in the input, and two
\* components became ready together
C20_Witness ==
    /\ PlanForCards /\ plan.path = "compose" /\ plan.status = "plan"
    /\ \E i, j \in 1..Len(components) :
           /\ i < j
           /\ ProvidersOf(components, i) # {}
           /\ PlaceOf(components, plan.execution_order, j)
                  < PlaceOf(components, plan.execution_order, i)
    /\ \E i, j \in 1..Len(components) :
           /\ i # j
           /\ ReadyAt(components, plan.execution_order, i)
                  = ReadyAt(components, plan.execution_order, j)

\* the stripped text before and after the first "=" of a line
LeftOf(line) == Strip(SplitFirst(line, S("=")))
RightOf(line) == Strip(Drop(line, Find(line, S("="))))

IsIdentifier(name) ==
    /\ name # <<>>
    /\ name[1] \notin Digits
    /\ \A i \in 1..Len(name) : name[i] \in IdentChars

\* name = <digits>: a plain constant assignment
IsConstantAssignment(line) ==
    /\ Contains(line, S("="))
    /\ IsIdentifier(LeftOf(line))
    /\ RightOf(line) # <<>>
    /\ \A i \in 1..Len(RightOf(line)) : RightOf(line)[i] \in Digits

\* name = callee(...): an assignment whose right-hand side is a call
IsCallAssignment(line) ==
    /\ Contains(line, S("="))
    /\ IsIdentifier(LeftOf(line))
    /\ Contains(RightOf(line), S("("))
    /\ IsIdentifier(SplitFirst(RightOf(line), S("(")))
    /\ RightOf(line)[Len(RightOf(line))] = ")"

\* C21: no line of the merged definitions is an assignment of a call, and
\* every plain constant assignment of a cell's definitions is kept, that is,
\* a line is appended to the definitions when it is processed.
C21_CallsFilteredConstantsKept ==
    /\ \A k \in 1..Len(merging.acc.definitions) :
           ~IsCallAssignment(merging.acc.definitions[k])
    /\ (merging.passed > 0 /\ merging.item.kind = "definition"
            /\ IsConstantAssignment(merging.item.line)) =>
           merging.appended # <<>>

(***************************************************************************)
(* _build_args_spec on bounded parameter maps                              *)
(***************************************************************************)

MaxParams == 2

\* parameter names: plain, with an illegal character, with a leading digit,
\* empty, and words of the language
ArgNames ==
    {S("n"), S("n-qubits"), S("n_qubits"), S("2q"), <<>>, S("from"), S("for")}

\* a dict of up to n entries with the given keys, every value the int 1
ArgDicts(n) ==
    {[i \in 1..Len(names) |-> Item(names[i], Value("int", "1"))] :
        names \in {l \in SeqsUpTo(ArgNames, n) :
                      \A i, j \in 1..Len(l) : i # j => l[i] # l[j]}}

\* param_map = {"validated": {...}, "defaults": {...}}
ArgParamMaps ==
    {<<Item("validated", validated), Item("defaults", defaults)>> :
        validated \in ArgDicts(MaxParams), defaults \in ArgDicts(1)}

\* the names of all_params, in the order of all_params.items()
ParamNames(param_map) == Keys(AllParams(param_map))

ArgsInit ==
    /\ ResolveIdle
    /\ ImportsIdle
    /\ AssembleIdle
    /\ failure = NoError
    /\ EngineIdle
    /\ CacheIdle
    /\ OrchestratorIdle
    /\ OptimizerIdle
    /\ declared \in {[NotDeclared EXCEPT !.param_map = param_map] : param_map \in ArgParamMaps}

\* assemble, step 5: args_spec = _build_args_spec(task_card, param_map), in a
\* process with some str hashes
BuildArgsSpec ==
    /\ ~declared.done
    /\ \E process_hash \in [Range(ParamNames(declared.param_map)) \cap ReservedNames
                               -> 0..MaxHash] :
           declared' = [declared EXCEPT
                           !.done = TRUE,
                           !.process_hash = process_hash,
                           !.args_spec = build_args_spec(<<>>, declared.param_map,
                                                         process_hash)]
    /\ UNCHANGED <<resolveVars, importVars, assembleVars, failure,
                   engine, cache, orchestration, optimization>>

SpecArgs == ArgsInit /\ [][BuildArgsSpec]_vars

\* C22: the declared parameter list has exactly one parameter for each
\* distinct name of values and defaults: as many parameters as names, each
\* name's sanitized form among them, and no two names with the same
\* sanitized form.
C22_OneParameterPerName ==
    declared.done =>
        /\ Len(declared.args_spec) = Len(ParamNames(declared.param_map))
        /\ \A n \in Range(ParamNames(declared.param_map)) :
               HasKey(declared.args_spec, clean_param_name(n, declared.process_hash))
        /\ \A n, m \in Range(ParamNames(declared.param_map)) :
               n # m => clean_param_name(n, declared.process_hash)
                            # clean_param_name(m, declared.process_hash)

\* the reserved words of Python 3
PythonKeywords ==
    {S("False"), S("None"), S("True"), S("and"), S("as"), S("assert"), S("async"),
     S("await"), S("break"), S("class"), S("continue"), S("def"), S("del"), S("elif"),
     S("else"), S("except"), S("finally"), S("for"), S("from"), S("global"), S("if"),
     S("import"), S("in"), S("is"), S("lambda"), S("nonlocal"), S("not"), S("or"),
     S("pass"), S("raise"), S("return"), S("try"), S("while"), S("with"), S("yield")}

\* C23: the sanitized form of every parameter name is a valid identifier and
\* is not a reserved word.
C23_SanitizedNamesValid ==
    declared.done =>
        \A k \in 1..Len(declared.args_spec) :
            /\ IsIdentifier(declared.args_spec[k].key)
            /\ declared.args_spec[k].key \notin PythonKeywords

(***************************************************************************)
(* core/llm_engine.py: LLMEngine, the validators and the retrying agent    *)
(* APIs task_understanding, plan_pipeline and generate_codecells           *)
(***************************************************************************)

\* s[i..j] is white space (\s*)
AllSpace(s, i, j) == \A k \in i..j : IsSpace(s[k])

\* s[i..j] holds no line break ("." of a regular expression)
OneLine(s, i, j) == \A k \in i..j : s[k] # "\n"

\* the places "$" matches at: the end, and before a line break at the end
EndPlaces(s) ==
    {Len(s)} \cup (IF s # <<>> /\ s[Len(s)] = "\n" THEN {Len(s) - 1} ELSE {})

\* re.search(r'\{.*\}\s*=', invoke_code)
DictThenAssign(s) ==
    \E i, j, k \in 1..Len(s) :
        /\ i < j /\ j < k
        /\ s[i] = "{" /\ s[j] = "}" /\ s[k] = "="
        /\ OneLine(s, i + 1, j - 1)
        /\ AllSpace(s, j + 1, k - 1)

\* re.search(r'=\s*\{.*\}$', invoke_code)
AssignDictAtEnd(s) ==
    \E i, j \in 1..Len(s) : \E e \in EndPlaces(s) :
        /\ i < j /\ j < e
        /\ s[i] = "=" /\ s[j] = "{" /\ s[e] = "}"
        /\ AllSpace(s, i + 1, j - 1)
        /\ OneLine(s, j + 1, e - 1)

\* re.search(r'\[\s*\]\s*=', invoke_code)
EmptyListThenAssign(s) ==
    \E i, j, k \in 1..Len(s) :
        /\ i < j /\ j < k
        /\ s[i] = "[" /\ s[j] = "]" /\ s[k] = "="
        /\ AllSpace(s, i + 1, j - 1)
        /\ AllSpace(s, j + 1, k - 1)

\* re.search(r'=\s*\[\s*\]$', invoke_code)
AssignEmptyListAtEnd(s) ==
    \E i, j \in 1..Len(s) : \E e \in EndPlaces(s) :
        /\ i < j /\ j < e
        /\ s[i] = "=" /\ s[j] = "[" /\ s[e] = "]"
        /\ AllSpace(s, i + 1, j - 1)
        /\ AllSpace(s, j + 1, e - 1)

\* the invoke codes of the generated cells; those compile(invoke_code,
\* '<invoke>', 'exec') takes without a SyntaxError
InvokeCodes ==
    {S("H = build_h(n)"), S("x = ("), S("p = {}"), S("{} = p"), S("[] = xs"),
     S("xs = []"), S("  y = 1"), <<>>}

CompilingInvokes == {S("H = build_h(n)"), S("p = {}"), S("[] = xs"), S("xs = []"), <<>>}

\* _validate_invoke_syntax
validate_invoke_syntax(invoke_code) ==
    IF \/ DictThenAssign(invoke_code)
       \/ AssignDictAtEnd(invoke_code)
       \/ EmptyListThenAssign(invoke_code)
       \/ AssignEmptyListAtEnd(invoke_code)
    THEN FALSE
    ELSE invoke_code \in CompilingInvokes

CellFields == {"id", "imports", "helpers", "definitions", "invoke", "exports"}

\* a mutant: the invoke code of a cell is not looked at
validate_code_cells_fields_only(data) ==
    /\ data.kind = "list"
    /\ \A k \in 1..Len(data.cells) :
           data.cells[k].is_dict /\ CellFields \subseteq data.cells[k].fields

\* _validate_code_cells
validate_code_cells(data) ==
    /\ data.kind = "list"
    /\ \A k \in 1..Len(data.cells) :
           /\ data.cells[k].is_dict
           /\ CellFields \subseteq data.cells[k].fields
           /\ data.cells[k].invoke # <<>> => validate_invoke_syntax(data.cells[k].invoke)

\* _validate_task_card
validate_task_card(data) ==
    /\ data.kind = "object"
    /\ {"domain", "problem", "algorithm", "backend", "params"} \subseteq data.fields
    /\ data.domain \in {"spin", "spin.tfim", "spin.heisenberg", "spin.ising",
                        "chemistry.molecular", "optimization", "custom"}
    /\ data.backend = "qiskit"

\* the test of the parsed response in the try block of an agent API; a
\* response that made _call_openai or _parse_json_with_retry raise has none
Validated(api, data) ==
    /\ data.kind \in {"object", "list"}
    /\ IF api = "task_understanding" THEN validate_task_card(data)
       ELSE IF api = "plan_pipeline" THEN validate_pipeline_plan(data)
       ELSE validate_code_cells(data)

\* return parsed_data
Returned(call, data) ==
    [call EXCEPT !.status = "returned", !.result = data, !.responses = Append(@, data)]

\* except Exception as e, on the last pass: raise RuntimeError(...); on the
\* others: the next pass
Rejected(call, data) ==
    IF call.attempt = call.max_retries - 1
    THEN [call EXCEPT !.status = "RuntimeError", !.responses = Append(@, data)]
    ELSE [call EXCEPT !.attempt = @ + 1, !.responses = Append(@, data)]

\* one pass of "for attempt in range(self.max_retries)"
AttemptPass(call, data) ==
    IF Validated(call.api, data) THEN Returned(call, data) ELSE Rejected(call, data)

\* the loop has no pass left: the function ends and returns None
LoopEnd(call) == [call EXCEPT !.status = "returned", !.result = NoData]

MaxEngineRetries == 2

AgentApis == {"task_understanding", "plan_pipeline", "generate_codecells"}

CellData(fields, invoke) == [is_dict |-> TRUE, fields |-> fields, invoke |-> invoke]

\* a list of cells as the code generator answers it
CellList(cells) == Data("list", {}, "", "", FALSE, cells)

\* what an agent API may get for a response
AgentResponses(api) ==
    {Data("call_error", {}, "", "", FALSE, <<>>), Data("not_json", {}, "", "", FALSE, <<>>)}
    \cup
    (IF api = "task_understanding"
     THEN {Data("object", {"domain", "problem", "algorithm", "backend", "params"}, d, b,
                FALSE, <<>>) : d \in {"spin.tfim", "physics"}, b \in {"qiskit", "cirq"}}
          \cup {Data("object", {"domain", "backend"}, "spin", "qiskit", FALSE, <<>>)}
     ELSE IF api = "plan_pipeline"
     THEN {Data("object", f, "", "", l, <<>>) :
               f \in {{"execution_order", "dependency_graph", "conflicts"},
                      {"execution_order", "conflicts"}},
               l \in BOOLEAN}
     ELSE {Data("object", {"cells"}, "", "", FALSE, <<>>), CellList(<<>>),
           CellList(<<CellData(CellFields \ {"exports"}, S("H = build_h(n)"))>>)}
          \cup {CellList(<<CellData(CellFields, i)>>) : i \in InvokeCodes}
          \cup {CellList(<<CellData(CellFields, S("H = build_h(n)")), CellData(CellFields, i)>>) :
                    i \in InvokeCodes})

\* engine = create_engine(max_retries=max_retries), and a call of an agent API
EngineInit ==
    /\ ResolveIdle
    /\ ImportsIdle
    /\ AssembleIdle
    /\ failure = NoError
    /\ DeclaredIdle
    /\ CacheIdle
    /\ OrchestratorIdle
    /\ OptimizerIdle
    /\ engine \in {[NoCall EXCEPT !.api = api, !.max_retries = m, !.status = "running"] :
                      api \in AgentApis, m \in 0..MaxEngineRetries}

\* a pass of the retry loop, with the response it gets
AgentAttempt ==
    /\ engine.status = "running"
    /\ engine.attempt < engine.max_retries
    /\ \E data \in AgentResponses(engine.api) : engine' = AttemptPass(engine, data)
    /\ UNCHANGED <<resolveVars, importVars, assembleVars, failure,
                   declared, cache, orchestration, optimization>>

\* range(self.max_retries) is used up without a return or a raise
AgentLoopEnds ==
    /\ engine.status = "running"
    /\ engine.attempt >= engine.max_retries
    /\ engine' = LoopEnd(engine)
    /\ UNCHANGED <<resolveVars, importVars, assembleVars, failure,
                   declared, cache, orchestration, optimization>>

EngineNext == AgentAttempt \/ AgentLoopEnds

SpecEngine == EngineInit /\ [][EngineNext]_vars

\* a cell of the list whose invoke code fails the sanity check
Malformed(data) ==
    /\ data.kind = "list"
    /\ \E k \in 1..Len(data.cells) :
           data.cells[k].invoke # <<>> /\ ~validate_invoke_syntax(data.cells[k].invoke)

LastResponse == engine.responses[Len(engine.responses)]

\* C24: a cell list holding a cell whose invoke code fails the sanity check is
\* never accepted: generate_codecells never returns it, the response that
\* holds it is followed by another attempt or by a raised RuntimeError, and on
\* the last attempt by the RuntimeError.
C24_MalformedCellNeverAccepted ==
    (engine.api = "generate_codecells" /\ engine.responses # <<>>) =>
        /\ engine.status = "returned" => ~Malformed(engine.result)
        /\ Malformed(LastResponse) =>
               /\ engine.status \in {"running", "RuntimeError"}
               /\ Len(engine.responses) = engine.max_retries => engine.status = "RuntimeError"

\* C24 witness: generate_codecells raised after its last attempt got a list
\* with a well-formed and a malformed cell
C24_Witness ==
    /\ engine.api = "generate_codecells"
    /\ engine.status = "RuntimeError"
    /\ Len(engine.responses) = engine.max_retries
    /\ Malformed(LastResponse)
    /\ Len(LastResponse.cells) = 2

\* C26: an agent API makes at most max_retries attempts, returns the first
\* response that parses and passes validation, raises RuntimeError when its
\* last attempt fails, and for every max_retries, zero included, does not
\* return without a validated result.
C26_ReturnsOnlyValidated ==
    engine.api \in AgentApis =>
        /\ Len(engine.responses) <= engine.max_retries
        /\ \A k \in 1..(Len(engine.responses) - 1) :
               ~Validated(engine.api, engine.responses[k])
        /\ (engine.responses # <<>> /\ Validated(engine.api, LastResponse)) =>
               engine.status = "returned" /\ engine.result = LastResponse
        /\ (Len(engine.responses) = engine.max_retries /\ engine.responses # <<>>
                /\ ~Validated(engine.api, LastResponse)) =>
               engine.status = "RuntimeError"
        /\ engine.status = "returned" => Validated(engine.api, engine.result)

\* C25: normalize neither loses nor invents imports: the non-blank entries of
\* its output are, as a set, the whitespace-normalized non-empty entries of
\* its input.
C25_SameImports ==
    normalized.done =>
        Range(normalized.value) \ {Blank}
            = {NormalizeWhitespace(imports[i]) : i \in 1..Len(imports)} \ {<<>>}

\* C25 witness: an input with a blank entry, a repeated import and a relative
\* import was normalized
C25_Witness ==
    /\ normalized.done
    /\ \E i \in 1..Len(imports) : NormalizeWhitespace(imports[i]) = <<>>
    /\ \E i, j \in 1..Len(imports) :
           i # j /\ NormalizeWhitespace(imports[i]) = NormalizeWhitespace(imports[j])
    /\ \E i \in 1..Len(imports) : classify_import(NormalizeWhitespace(imports[i])) = "local"

(***************************************************************************)
(* core/cache_manager.py: CacheManager                                     *)
(*                                                                         *)
(* A cache key is modelled by the pair of its prefix and of the data it is *)
(* generated from (md5 taken as injective on the data of the model); the   *)
(* clock time.time() is a counter that never runs backwards.               *)
(***************************************************************************)

\* the value a get returns for None
None == "None"

\* dict.pop(key, None) for each of the keys
PopAll(dict, keys) == SelectSeq(dict, LAMBDA item : item.key \notin keys)

\* f"registry_{...}", f"agent_{agent_name}_{...}", f"query_{...}"
CacheKey(type, data) == <<type, data>>

\* the dict of one cache and the switch of CacheConfig for it
CacheField(type) == type \o "_cache"

\* not self.config.enable_cache or not self.config.<type>_cache
CacheOff(c, type) == ~c.config.enable_cache \/ ~c.config[CacheField(type)]

\* a mutant: an entry never expires
is_expired_never(c, key) == ~HasKey(c.cache_timestamps, key)

\* _is_expired
is_expired(c, key) ==
    IF ~HasKey(c.cache_timestamps, key) THEN TRUE
    ELSE c.now - Get(c.cache_timestamps, key, 0) > c.config.ttl

\* expired_keys of _cleanup_expired
ExpiredKeys(c, type) ==
    {c.cache_timestamps[k].key : k \in {i \in 1..Len(c.cache_timestamps) :
        /\ c.now - c.cache_timestamps[i].value > c.config.ttl
        /\ HasKey(c[CacheField(type)], c.cache_timestamps[i].key)}}

\* the three pops of a key, for each of the keys
Forget(c, type, keys) ==
    [c EXCEPT ![CacheField(type)] = PopAll(@, keys),
              !.cache_timestamps = PopAll(@, keys),
              !.cache_access_times = PopAll(@, keys)]

\* _cleanup_expired
cleanup_expired(c, type) == Forget(c, type, ExpiredKeys(c, type))

\* sorted(keys, key=lambda k: self._cache_access_times.get(k, 0)): a stable
\* sort, the keys of equal access time stay in the order of the dict
RECURSIVE SortedByAccess(_, _)
SortedByAccess(keys, access_times) ==
    IF keys = <<>> THEN <<>>
    ELSE LET first == CHOOSE i \in 1..Len(keys) :
                 /\ \A j \in 1..Len(keys) :
                        Get(access_times, keys[i], 0) <= Get(access_times, keys[j], 0)
                 /\ \A j \in 1..(i - 1) :
                        Get(access_times, keys[j], 0) > Get(access_times, keys[i], 0)
         IN <<keys[first]>>
            \o SortedByAccess(SubSeq(keys, 1, first - 1) \o SubSeq(keys, first + 1, Len(keys)),
                              access_times)

\* a mutant: the entries stored first are removed, whenever they were accessed
KeysToRemoveOldest(c, type) ==
    IF Len(c[CacheField(type)]) <= c.config.max_entries THEN {}
    ELSE Range(SubSeq(Keys(c[CacheField(type)]), 1,
                      Len(c[CacheField(type)]) - c.config.max_entries))

\* sorted_keys[:to_remove] of _enforce_max_entries
KeysToRemove(c, type) ==
    IF Len(c[CacheField(type)]) <= c.config.max_entries THEN {}
    ELSE Range(SubSeq(SortedByAccess(Keys(c[CacheField(type)]), c.cache_access_times), 1,
                      Len(c[CacheField(type)]) - c.config.max_entries))

\* a mutant: nothing is removed
enforce_max_entries_never(c, type) == c

\* _enforce_max_entries
enforce_max_entries(c, type) == Forget(c, type, KeysToRemove(c, type))

\* the three assignments of a cache_ method
Inserted(c, type, key, entry) ==
    [c EXCEPT ![CacheField(type)] = SetItem(@, key, entry),
              !.cache_timestamps = SetItem(@, key, c.now),
              !.cache_access_times = SetItem(@, key, c.now)]

\* the body shared by cache_registry, cache_agent_response and
\* cache_query_result
Stored(c, type, key, entry) ==
    IF CacheOff(c, type) THEN c
    ELSE enforce_max_entries(cleanup_expired(Inserted(c, type, key, entry), type), type)

\* cache_registry
cache_registry(c, registry_path, registry_data) ==
    Stored(c, "registry", CacheKey("registry", registry_path), registry_data)

\* cache_agent_response
cache_agent_response(c, agent_name, input_data, response) ==
    Stored(c, "agent", CacheKey("agent", <<agent_name, input_data>>), response)

\* cache_query_result
cache_query_result(c, query, task_card, result_code) ==
    Stored(c, "query", CacheKey("query", <<query, task_card>>),
           [query |-> query, task_card |-> task_card, result_code |-> result_code,
            generated_at |-> c.now])

\* the body shared by the get_cached_ methods: the manager afterwards and the
\* entry found, or None
Looked(c, type, key) ==
    IF CacheOff(c, type) THEN [manager |-> c, hit |-> FALSE, entry |-> None]
    ELSE IF ~HasKey(c[CacheField(type)], key) \/ is_expired(c, key)
    THEN [manager |-> c, hit |-> FALSE, entry |-> None]
    ELSE [manager |-> [c EXCEPT !.cache_access_times = SetItem(@, key, c.now)],
          hit |-> TRUE, entry |-> Get(c[CacheField(type)], key, None)]

\* get_cached_registry
get_cached_registry(c, registry_path) ==
    Looked(c, "registry", CacheKey("registry", registry_path))

\* get_cached_agent_response
get_cached_agent_response(c, agent_name, input_data) ==
    Looked(c, "agent", CacheKey("agent", <<agent_name, input_data>>))

\* get_cached_query_result: return self._query_cache[key]["result_code"]
ResultCode(found) ==
    IF found.hit THEN [found EXCEPT !.entry = @.result_code] ELSE found

get_cached_query_result(c, query, task_card) ==
    ResultCode(Looked(c, "query", CacheKey("query", <<query, task_card>>)))

\* clear_cache; cache_type "None" for the default
clear_cache(c, cache_type) ==
    [c EXCEPT !.registry_cache =
                  IF cache_type \in {"registry", None} THEN <<>> ELSE @,
              !.agent_cache = IF cache_type \in {"agent", None} THEN <<>> ELSE @,
              !.query_cache = IF cache_type \in {"query", None} THEN <<>> ELSE @,
              !.cache_timestamps = IF cache_type = None THEN <<>> ELSE @,
              !.cache_access_times = IF cache_type = None THEN <<>> ELSE @]

MaxTime == 2
MaxTtl == 1
MaxEntries == 2
MaxCacheCalls == 4

RegistryPaths == {"p1", "p2", "p3"}
AgentNames == {"SemanticAgent"}
AgentInputs == {"i1"}
Queries == {"q1"}
QueryTaskCards == {"t1"}
CacheValues == {"v1", "v2"}
AgentResponseValues == {"v1"}
ResultCodes == {"v1"}
CacheTypes == {"registry", "agent", "query"}

\* CacheConfig: the switches, the time to live and the entry limit
CacheConfigs ==
    {[enable_cache |-> e, registry_cache |-> r, query_cache |-> TRUE, agent_cache |-> TRUE,
      ttl |-> ttl, max_entries |-> m] :
        e \in BOOLEAN, r \in BOOLEAN, ttl \in {MaxTtl}, m \in 1..MaxEntries}

\* no operation observed yet
NoOp == [op |-> "none", type |-> "none", key |-> <<>>, value |-> None, result |-> None,
         evicted |-> {}]

\* CacheManager(config), at time 0, no method called yet; history holds, for every key, the value of
\* its latest store and the time of it, until the key is cleared or evicted
NewCache(config) ==
    [built |-> TRUE, config |-> config,
     registry_cache |-> <<>>, query_cache |-> <<>>, agent_cache |-> <<>>,
     cache_timestamps |-> <<>>, cache_access_times |-> <<>>,
     now |-> 0, calls |-> 0, history |-> <<>>, last |-> NoOp]

\* the entries _enforce_max_entries removed in a store of key: those left by
\* _cleanup_expired that the cache no longer holds
Evicted(c, after, type, key) ==
    {[key |-> k,
      accessed |-> Get(Inserted(c, type, key, None).cache_access_times, k, 0),
      stored |-> Get(Inserted(c, type, key, None).cache_timestamps, k, 0)] :
        k \in Range(Keys(cleanup_expired(Inserted(c, type, key, None), type)[CacheField(type)]))
              \ Range(Keys(after[CacheField(type)]))}

\* the manager after a cache_ method, with what it did
AfterStore(c, after, type, key, value) ==
    [after EXCEPT
        !.calls = @ + 1,
        !.history = IF CacheOff(c, type) THEN @
                    ELSE PopAll(SetItem(@, key, [value |-> value, at |-> c.now]),
                                {e.key : e \in Evicted(c, after, type, key)}),
        !.last = [op |-> "store", type |-> type, key |-> key, value |-> value,
                  result |-> None, evicted |-> Evicted(c, after, type, key)]]

\* the manager after a get_cached_ method, with what it returned
AfterGet(found, type, key) ==
    [found.manager EXCEPT
        !.calls = @ + 1,
        !.last = [op |-> "get", type |-> type, key |-> key, value |-> None,
                  result |-> found.entry, evicted |-> {}]]

CacheInit ==
    /\ ResolveIdle
    /\ ImportsIdle
    /\ AssembleIdle
    /\ failure = NoError
    /\ DeclaredIdle
    /\ EngineIdle
    /\ OrchestratorIdle
    /\ OptimizerIdle
    /\ cache \in {NewCache(config) : config \in CacheConfigs}

CacheRegistry ==
    /\ cache.calls < MaxCacheCalls
    /\ \E registry_path \in RegistryPaths, registry_data \in CacheValues :
           cache' = AfterStore(cache, cache_registry(cache, registry_path, registry_data),
                               "registry", CacheKey("registry", registry_path), registry_data)
    /\ UNCHANGED <<resolveVars, importVars, assembleVars, failure,
                   declared, engine, orchestration, optimization>>

GetCachedRegistry ==
    /\ cache.calls < MaxCacheCalls
    /\ \E registry_path \in RegistryPaths :
           cache' = AfterGet(get_cached_registry(cache, registry_path),
                             "registry", CacheKey("registry", registry_path))
    /\ UNCHANGED <<resolveVars, importVars, assembleVars, failure,
                   declared, engine, orchestration, optimization>>

CacheAgentResponse ==
    /\ cache.calls < MaxCacheCalls
    /\ \E agent_name \in AgentNames, input_data \in AgentInputs, response \in AgentResponseValues :
           cache' = AfterStore(cache,
                               cache_agent_response(cache, agent_name, input_data, response),
                               "agent", CacheKey("agent", <<agent_name, input_data>>), response)
    /\ UNCHANGED <<resolveVars, importVars, assembleVars, failure,
                   declared, engine, orchestration, optimization>>

GetCachedAgentResponse ==
    /\ cache.calls < MaxCacheCalls
    /\ \E agent_name \in AgentNames, input_data \in AgentInputs :
           cache' = AfterGet(get_cached_agent_response(cache, agent_name, input_data),
                             "agent", CacheKey("agent", <<agent_name, input_data>>))
    /\ UNCHANGED <<resolveVars, importVars, assembleVars, failure,
                   declared, engine, orchestration, optimization>>

CacheQueryResult ==
    /\ cache.calls < MaxCacheCalls
    /\ \E query \in Queries, task_card \in QueryTaskCards, result_code \in ResultCodes :
           cache' = AfterStore(cache, cache_query_result(cache, query, task_card, result_code),
                               "query", CacheKey("query", <<query, task_card>>), result_code)
    /\ UNCHANGED <<resolveVars, importVars, assembleVars, failure,
                   declared, engine, orchestration, optimization>>

GetCachedQueryResult ==
    /\ cache.calls < MaxCacheCalls
    /\ \E query \in Queries, task_card \in QueryTaskCards :
           cache' = AfterGet(get_cached_query_result(cache, query, task_card),
                             "query", CacheKey("query", <<query, task_card>>))
    /\ UNCHANGED <<resolveVars, importVars, assembleVars, failure,
                   declared, engine, orchestration, optimization>>

ClearCache ==
    /\ cache.calls < MaxCacheCalls
    /\ \E cache_type \in CacheTypes \cup {None} :
           cache' = [clear_cache(cache, cache_type) EXCEPT
                        !.calls = @ + 1,
                        !.history = SelectSeq(@, LAMBDA item :
                                        cache_type # None /\ item.key[1] # cache_type),
                        !.last = [NoOp EXCEPT !.op = "clear", !.type = cache_type]]
    /\ UNCHANGED <<resolveVars, importVars, assembleVars, failure,
                   declared, engine, orchestration, optimization>>

\* time.time() moves on
Tick ==
    /\ cache.now < MaxTime
    /\ cache' = [cache EXCEPT !.now = @ + 1, !.last = NoOp]
    /\ UNCHANGED <<resolveVars, importVars, assembleVars, failure,
                   declared, engine, orchestration, optimization>>

CacheNext ==
    \/ CacheRegistry \/ GetCachedRegistry
    \/ CacheAgentResponse \/ GetCachedAgentResponse
    \/ CacheQueryResult \/ GetCachedQueryResult
    \/ ClearCache \/ Tick

SpecCache == CacheInit /\ [][CacheNext]_vars

\* what the store of a key still promises: its value while the time to live
\* has not elapsed, None otherwise
Promised(c, key) ==
    IF HasKey(c.history, key) /\ c.now - Get(c.history, key, None).at <= c.config.ttl
    THEN Get(c.history, key, None).value
    ELSE None

\* C27: with the cache switched on, a get returns the value last stored under
\* the key when that store is not older than the time to live and the entry
\* was neither evicted nor cleared since, and None for a key never stored or
\* stored longer ago than the time to live.
C27_GetReturnsStored ==
    (cache.last.op = "get" /\ ~CacheOff(cache, cache.last.type)) =>
        cache.last.result = Promised(cache, cache.last.key)

\* C27 witness: a get returned a value stored at an earlier time, after
\* another value had been stored under the key
C27_Witness ==
    /\ cache.last.op = "get"
    /\ cache.last.result = "v2"
    /\ Get(cache.history, cache.last.key, None).at < cache.now
    /\ Len(cache[CacheField(cache.last.type)]) = 2

\* C28: each of the three caches holds at most max_entries entries, and the
\* entries an insertion evicts were accessed no later than every entry the
\* cache keeps.
C28_BoundedLeastRecentlyAccessedEvicted ==
    /\ \A type \in CacheTypes : Len(cache[CacheField(type)]) <= cache.config.max_entries
    /\ cache.last.op = "store" =>
           \A e \in cache.last.evicted :
               \A k \in Range(Keys(cache[CacheField(cache.last.type)])) :
                   e.accessed <= Get(cache.cache_access_times, k, 0)

\* C28 witness: an insertion evicted an entry and kept one that was stored no
\* later but accessed later
C28_Witness ==
    /\ cache.last.op = "store"
    /\ \E e \in cache.last.evicted :
           \E k \in Range(Keys(cache[CacheField(cache.last.type)])) :
               /\ Get(cache.cache_timestamps, k, 0) <= e.stored
               /\ Get(cache.cache_access_times, k, 0) > e.accessed

(***************************************************************************)
(* core/orchestrator.py: ResourceManager and                               *)
(* IntelligentToolOrchestrator.generate_quantum_code                       *)
(*                                                                         *)
(* call_llm, the tools and Memory are the surroundings of the loop: a call *)
(* of one of them returns or raises. The clock is modelled by whether      *)
(* max_execution_time has run out.                                         *)
(***************************************************************************)

max_iterations == 10
default_max_llm_calls == 20
MaxLlmCalls == 3

\* IntelligentToolOrchestrator(), its resource manager allowing max_llm_calls
NewOrchestration(max_llm_calls_) ==
    [started |-> TRUE, execution_status |-> "ready", pc |-> "ready", iteration |-> 0,
     stop_reason |-> "max_iterations", max_llm_calls |-> max_llm_calls_,
     current_llm_calls |-> 0, out_of_time |-> FALSE]

\* a mutant: a call is always allowed
can_make_llm_call_always(o) == TRUE

\* ResourceManager.can_make_llm_call
can_make_llm_call(o) ==
    IF o.current_llm_calls >= o.max_llm_calls THEN FALSE
    ELSE IF o.out_of_time THEN FALSE
    ELSE TRUE

\* ResourceManager.record_llm_call
record_llm_call(o) == [o EXCEPT !.current_llm_calls = @ + 1]

\* except Exception as e: the status and the result returned
Failed(o) ==
    [o EXCEPT !.execution_status = "failed", !.stop_reason = "error", !.pc = "returned"]

\* stop_reason = ...; break
Break(o, stop_reason) == [o EXCEPT !.stop_reason = stop_reason, !.pc = "finish"]

\* the outcomes of a step: what it does when nothing raises, or the except
\* clause when a call it makes raises
Outcomes(o, done) == {done, Failed(o)}

\* execution_status = "running", start_execution(), memory.initialize_query
Started(o) ==
    [o EXCEPT !.execution_status = "running", !.current_llm_calls = 0, !.iteration = 0,
              !.stop_reason = "max_iterations", !.pc = "loop"]

\* while iteration < max_iterations: iteration += 1 and the first test of the
\* resource limits
LoopHead(o) ==
    IF o.iteration < max_iterations
    THEN IF ~can_make_llm_call([o EXCEPT !.iteration = @ + 1])
         THEN Break([o EXCEPT !.iteration = @ + 1], "resource_limit")
         ELSE [o EXCEPT !.iteration = @ + 1, !.pc = "select"]
    ELSE [o EXCEPT !.pc = "finish"]

\* _llm_select_next_tool and the test for "COMPLETE"
Selected(o, next_tool_name) ==
    IF next_tool_name = "COMPLETE" THEN Break(record_llm_call(o), "completed")
    ELSE [record_llm_call(o) EXCEPT !.pc = "execute"]

\* _execute_tool, memory.add_tool_output and the second test of the limits
Executed(o) ==
    IF ~can_make_llm_call(o) THEN Break(o, "resource_limit")
    ELSE [o EXCEPT !.pc = "evaluate"]

\* _llm_evaluate_progress and "if not should_continue"
Evaluated(o, should_continue) ==
    IF should_continue THEN [record_llm_call(o) EXCEPT !.pc = "loop"]
    ELSE Break(record_llm_call(o), "llm_decision")

\* execution_status = "completed" and return result
Completed(o) == [o EXCEPT !.execution_status = "completed", !.pc = "returned"]

OrchestratorInit ==
    /\ ResolveIdle
    /\ ImportsIdle
    /\ AssembleIdle
    /\ failure = NoError
    /\ DeclaredIdle
    /\ EngineIdle
    /\ CacheIdle
    /\ OptimizerIdle
    /\ orchestration \in {NewOrchestration(m) : m \in (0..MaxLlmCalls) \cup {default_max_llm_calls}}

StartExecution ==
    /\ orchestration.pc = "ready"
    /\ orchestration' \in Outcomes(orchestration, Started(orchestration))
    /\ UNCHANGED <<resolveVars, importVars, assembleVars, failure,
                   declared, engine, cache, optimization>>

NextIteration ==
    /\ orchestration.pc = "loop"
    /\ orchestration' = LoopHead(orchestration)
    /\ UNCHANGED <<resolveVars, importVars, assembleVars, failure,
                   declared, engine, cache, optimization>>

SelectNextTool ==
    /\ orchestration.pc = "select"
    /\ \E next_tool_name \in {"COMPLETE", "TFIMModelGenerator", "NoSuchTool"} :
           orchestration' \in Outcomes(orchestration, Selected(orchestration, next_tool_name))
    /\ UNCHANGED <<resolveVars, importVars, assembleVars, failure,
                   declared, engine, cache, optimization>>

ExecuteTool ==
    /\ orchestration.pc = "execute"
    /\ orchestration' \in Outcomes(orchestration, Executed(orchestration))
    /\ UNCHANGED <<resolveVars, importVars, assembleVars, failure,
                   declared, engine, cache, optimization>>

EvaluateProgress ==
    /\ orchestration.pc = "evaluate"
    /\ \E should_continue \in BOOLEAN :
           orchestration' \in Outcomes(orchestration, Evaluated(orchestration, should_continue))
    /\ UNCHANGED <<resolveVars, importVars, assembleVars, failure,
                   declared, engine, cache, optimization>>

ReturnResult ==
    /\ orchestration.pc = "finish"
    /\ orchestration' \in Outcomes(orchestration, Completed(orchestration))
    /\ UNCHANGED <<resolveVars, importVars, assembleVars, failure,
                   declared, engine, cache, optimization>>

\* max_execution_time runs out while the run is under way
TimeRunsOut ==
    /\ orchestration.pc \notin {"ready", "returned"}
    /\ ~orchestration.out_of_time
    /\ orchestration' = [orchestration EXCEPT !.out_of_time = TRUE]
    /\ UNCHANGED <<resolveVars, importVars, assembleVars, failure,
                   declared, engine, cache, optimization>>

OrchestratorNext ==
    \/ StartExecution \/ NextIteration \/ SelectNextTool \/ ExecuteTool
    \/ EvaluateProgress \/ ReturnResult \/ TimeRunsOut

\* the run is sequential code: it goes on as long as it has a step to take
SpecOrchestrator == OrchestratorInit /\ [][OrchestratorNext]_vars /\ WF_vars(OrchestratorNext)

\* C29: a run of generate_quantum_code stays within its bounds and stops: at
\* most max_iterations (10) passes of the loop, never more recorded LLM calls
\* than max_llm_calls, and it ends, with execution_status completed or failed.
C29_BoundedAndStops ==
    /\ [](/\ orchestration.iteration <= max_iterations
          /\ orchestration.current_llm_calls <= orchestration.max_llm_calls
          /\ orchestration.pc = "returned" =>
                 orchestration.execution_status \in {"completed", "failed"})
    /\ <>(orchestration.pc = "returned")

\* C29 witness: a run used up its LLM calls and ended for it, completed
C29_Witness ==
    /\ orchestration.pc = "returned"
    /\ orchestration.execution_status = "completed"
    /\ orchestration.stop_reason = "resource_limit"
    /\ orchestration.max_llm_calls > 0
    /\ orchestration.current_llm_calls = orchestration.max_llm_calls

(***************************************************************************)
(* CodeOptimizer (src/core/code_optimizer.py): optimize_code_cells.  A     *)
(* CodeCell is a record of id, imports, helpers and invoke; the other      *)
(* fields of a cell are copied unchanged by cell.copy().                   *)
(***************************************************************************)

\* \w of the regular expressions, for the texts of the model
IsWord(c) == c \in IdentChars

\* the place after the longest run of whitespace (\s*) that starts at place i
SpaceEnd(s, i) == Min({j \in i..(Len(s) + 1) : j > Len(s) \/ ~IsSpace(s[j])})

\* the place after the longest run of \w that starts at place i
WordEnd(s, i) == Min({j \in i..(Len(s) + 1) : j > Len(s) \/ ~IsWord(s[j])})

\* r'def\s+(\w+)\s*\(' matched at place i: the places of the name and of "("
DefAt(s, i) ==
    [from |-> SpaceEnd(s, i + 3),
     to |-> WordEnd(s, SpaceEnd(s, i + 3)) - 1,
     paren |-> SpaceEnd(s, WordEnd(s, SpaceEnd(s, i + 3)))]

DefMatches(s, i) ==
    /\ i + 2 <= Len(s)
    /\ SubSeq(s, i, i + 2) = S("def")
    /\ DefAt(s, i).from > i + 3
    /\ DefAt(s, i).to >= DefAt(s, i).from
    /\ DefAt(s, i).paren <= Len(s)
    /\ s[DefAt(s, i).paren] = "("

\* the place of the first ")" after place p; 0 when there is none
Closing(s, p) ==
    IF \E j \in (p + 1)..Len(s) : s[j] = ")"
    THEN Min({j \in (p + 1)..Len(s) : s[j] = ")"})
    ELSE 0

\* _extract_function_signature: re.search(r'def\s+(\w+)\s*\([^)]*\)'), group 0;
\* <<>> stands for None (the callers only test the result's truth)
extract_function_signature(function_code) ==
    LET places == {i \in 1..Len(function_code) :
                      /\ DefMatches(function_code, i)
                      /\ Closing(function_code, DefAt(function_code, i).paren) > 0}
    IN IF places = {} THEN <<>>
       ELSE SubSeq(function_code, Min(places),
                   Closing(function_code, DefAt(function_code, Min(places)).paren))

\* CodeOptimizer._extract_function_name: re.search(r'def\s+(\w+)\s*\('),
\* group 1; <<>> stands for None
extract_helper_function_name(function_code) ==
    LET places == {i \in 1..Len(function_code) : DefMatches(function_code, i)}
    IN IF places = {} THEN <<>>
       ELSE SubSeq(function_code, DefAt(function_code, Min(places)).from,
                   DefAt(function_code, Min(places)).to)

\* _extract_function_calls: set(re.findall(r'(\w+)\s*\(', code)), the runs of
\* \w that are followed, after any whitespace, by "("
extract_function_calls(code) ==
    {SubSeq(code, a, WordEnd(code, a) - 1) :
        a \in {i \in 1..Len(code) :
                  /\ IsWord(code[i])
                  /\ (i = 1 \/ ~IsWord(code[i - 1]))
                  /\ SpaceEnd(code, WordEnd(code, i)) <= Len(code)
                  /\ code[SpaceEnd(code, WordEnd(code, i))] = "("}}

\* re.match(r'from\s+([\w.]+)\s+import\s+(.+)', imp) for an imp of one line:
\* the places of the module and of the items
FromAt(imp) ==
    [module_from |-> SpaceEnd(imp, 5),
     module_to |-> Min({j \in SpaceEnd(imp, 5)..(Len(imp) + 1) :
                           j > Len(imp) \/ ~(IsWord(imp[j]) \/ imp[j] = ".")}) - 1]

ImportAt(imp) == SpaceEnd(imp, FromAt(imp).module_to + 1)

ItemsAt(imp) ==
    IF SpaceEnd(imp, ImportAt(imp) + 6) <= Len(imp)
    THEN SpaceEnd(imp, ImportAt(imp) + 6)
    ELSE Len(imp)

FromMatches(imp) ==
    /\ StartsWith(imp, S("from"))
    /\ SpaceEnd(imp, 5) > 5
    /\ FromAt(imp).module_to >= FromAt(imp).module_from
    /\ ImportAt(imp) > FromAt(imp).module_to + 1
    /\ SubSeq(imp, ImportAt(imp), ImportAt(imp) + 5) = S("import")
    /\ SpaceEnd(imp, ImportAt(imp) + 6) > ImportAt(imp) + 6
    /\ ItemsAt(imp) > ImportAt(imp) + 6

ModuleOf(imp) == SubSeq(imp, FromAt(imp).module_from, FromAt(imp).module_to)

\* [item.strip() for item in items.split(',')]
ItemsOf(imp) ==
    {Strip(SplitOn(SubSeq(imp, ItemsAt(imp), Len(imp)), S(","))[k]) :
        k \in 1..Len(SplitOn(SubSeq(imp, ItemsAt(imp), Len(imp)), S(",")))}

\* _merge_imports
merge_imports(all_imports) ==
    LET grouped == {imp \in all_imports : StartsWith(imp, S("from ")) /\ FromMatches(imp)}
        standalone_imports == all_imports \ grouped
        modules == SortedSet({ModuleOf(imp) : imp \in grouped})
        unique_items(module) ==
            SortedSet(UNION {ItemsOf(imp) : imp \in {g \in grouped : ModuleOf(g) = module}})
    IN SortedSet(standalone_imports)
       \o [k \in 1..Len(modules) |->
              S("from ") \o modules[k] \o S(" import ")
              \o Join(S(", "), unique_items(modules[k]))]

MaxOptCells == 2
MaxHelpers == 2

CellIds == {"cell1", "cell2"}

\* helpers: one function, the same with other whitespace, and a second function
HelperTexts == {S("def f(): return 1"), S("def f():  return 1"), S("def g(x): return x")}

HelperLists == UNION {[1..n -> HelperTexts] : n \in 0..MaxHelpers}

InvokeTexts == {S("r = f()"), S("s = g (f())"), S("t = 1")}

ImportLists == {<<S("import numpy")>>, <<S("from qiskit import B, A"), S("from qiskit import A")>>}

ImportTexts == UNION {Range(list) : list \in ImportLists}

\* the results of the regular expressions for the texts of the model, each
\* computed once
SignatureOf == [helper \in HelperTexts |-> extract_function_signature(helper)]
NameOf == [helper \in HelperTexts |-> extract_helper_function_name(helper)]
\* _same_function compares re.sub(r'\s+', ' ', func.strip()) of the two helpers
NormalFormOf == [helper \in HelperTexts |-> NormalizeWhitespace(helper)]
CallsOf == [code \in InvokeTexts |-> extract_function_calls(code)]
MergedImports == [all_imports \in SUBSET ImportTexts |-> merge_imports(all_imports)]

\* the (signature, cell id, helper) of every helper with a signature, cell by
\* cell and helper by helper
RECURSIVE Instances(_)
Instances(code_cells) ==
    IF code_cells = <<>> THEN <<>>
    ELSE Instances(SubSeq(code_cells, 1, Len(code_cells) - 1))
         \o SelectSeq([k \in 1..Len(code_cells[Len(code_cells)].helpers) |->
                          [signature |-> SignatureOf[code_cells[Len(code_cells)].helpers[k]],
                           id |-> code_cells[Len(code_cells)].id,
                           helper |-> code_cells[Len(code_cells)].helpers[k]]],
                     LAMBDA inst : inst.signature # <<>>)

\* function_signatures[signature]
InstancesOf(instances, signature) ==
    SelectSeq(instances, LAMBDA inst : inst.signature = signature)

\* the helper is dropped from the cells with this id by the loop over
\* instances[1:] of some signature that has more than one instance:
\* not _same_function(h, instances[0][1]) is false
Dropped(instances, cell_id, helper) ==
    \E first \in 1..Len(instances) :
        /\ \A k \in 1..(first - 1) : instances[k].signature # instances[first].signature
        /\ \E other \in (first + 1)..Len(instances) :
               /\ instances[other].signature = instances[first].signature
               /\ instances[other].id = cell_id
        /\ NormalFormOf[helper] = NormalFormOf[instances[first].helper]

\* _deduplicate_functions
deduplicate_functions(code_cells) ==
    [c \in 1..Len(code_cells) |->
        [code_cells[c] EXCEPT
            !.helpers = SelectSeq(@, LAMBDA h : ~Dropped(Instances(code_cells),
                                                         code_cells[c].id, h))]]

\* _optimize_imports: the cells equal to the first cell get every import
optimize_imports(code_cells) ==
    [c \in 1..Len(code_cells) |->
        [code_cells[c] EXCEPT
            !.imports =
                IF code_cells[c] = code_cells[1]
                THEN MergedImports[UNION {Range(code_cells[d].imports) :
                                             d \in 1..Len(code_cells)}]
                ELSE <<>>]]

defined_functions(code_cells) ==
    UNION {{NameOf[code_cells[c].helpers[h]] : h \in 1..Len(code_cells[c].helpers)}
              \ {<<>>} : c \in 1..Len(code_cells)}

called_functions(code_cells) ==
    UNION {CallsOf[code_cells[c].invoke] : c \in 1..Len(code_cells)}

\* _remove_unused_definitions
remove_unused_definitions(code_cells) ==
    [c \in 1..Len(code_cells) |->
        [code_cells[c] EXCEPT
            !.helpers =
                SelectSeq(@, LAMBDA helper :
                    NameOf[helper] \notin (defined_functions(code_cells)
                                               \ called_functions(code_cells)))]]

\* optimize_code_cells
optimize_code_cells(code_cells) ==
    remove_unused_definitions(optimize_imports(deduplicate_functions(code_cells)))

CodeCells ==
    {[id |-> id, imports |-> imps, helpers |-> helpers, invoke |-> invoke] :
        id \in CellIds, imps \in ImportLists, helpers \in HelperLists, invoke \in InvokeTexts}

NewOptimization(code_cells) ==
    [done |-> FALSE, code_cells |-> code_cells, optimized_cells |-> <<>>]

OptimizerInit ==
    /\ ResolveIdle
    /\ ImportsIdle
    /\ AssembleIdle
    /\ failure = NoError
    /\ DeclaredIdle
    /\ EngineIdle
    /\ CacheIdle
    /\ OrchestratorIdle
    /\ optimization \in
           {NewOptimization(code_cells) :
               code_cells \in UNION {[1..n -> CodeCells] : n \in 1..MaxOptCells}}

\* optimizer.optimize_code_cells(code_cells)
OptimizeCodeCells ==
    /\ ~optimization.done
    /\ optimization' = [optimization EXCEPT
                           !.done = TRUE,
                           !.optimized_cells = optimize_code_cells(optimization.code_cells)]
    /\ UNCHANGED <<resolveVars, importVars, assembleVars, failure,
                   declared, engine, cache, orchestration>>

SpecOptimizer == OptimizerInit /\ [][OptimizeCodeCells]_vars

\* the number of helpers of the cells that define the function of this name
HelperCount(code_cells, name) ==
    Cardinality({<<c, h>> \in (1..Len(code_cells)) \X (1..MaxHelpers) :
                    /\ h <= Len(code_cells[c].helpers)
                    /\ NameOf[code_cells[c].helpers[h]] = name})

\* the helpers of the cells that define the function of this name
HelpersDefining(code_cells, name) ==
    {code_cells[c].helpers[h] :
        <<c, h>> \in {p \in (1..Len(code_cells)) \X (1..MaxHelpers) :
                         /\ p[2] <= Len(code_cells[p[1]].helpers)
                         /\ NameOf[code_cells[p[1]].helpers[p[2]]] = name}}

\* C30: after optimize_code_cells, a helper function that the input cells
\* define, always with the same text up to whitespace, and that some cell's
\* invoke calls, is defined exactly once across the returned cells, wherever
\* its duplicates were (in different cells or in the same cell)
C30_CalledHelperDefinedOnce ==
    optimization.done =>
        \A name \in defined_functions(optimization.code_cells)
                        \cap called_functions(optimization.code_cells) :
            (\A h1, h2 \in HelpersDefining(optimization.code_cells, name) :
                 NormalFormOf[h1] = NormalFormOf[h2])
            => HelperCount(optimization.optimized_cells, name) = 1

====
